---------------------------- MODULE Spec2Model ----------------------------
(***************************************************************************)
(* Week-5-SmartCampus: the ingestion scheduler (src/ingestion/scheduler.py) *)
(* and the retrieval cache (src/app/app.py) as state machines.             *)
(*                                                                         *)
(* Text is a sequence of one-character strings, so that trimming, case     *)
(* folding, tokenising and substring tests are computed, not assumed.      *)
(***************************************************************************)
EXTENDS Integers, Sequences, FiniteSets, TLC

(***************************************************************************)
(* Bounds of the model.                                                    *)
(***************************************************************************)
\* run_once calls the polling loop may start
MaxRuns == 2
\* run_once calls the app may start (clicks of "Start Ingestion")
MaxClicks == 1
\* files the environment places in the inbox
MaxDrops == 2
\* the clock runs over the instants within a second of a multiple of the TTL,
\* up to this multiple
MaxPeriods == 1
\* store or filesystem failures the environment injects
MaxFaults == 2
\* scenarios of one run_whatif call
MaxScenarios == 3
\* records appended to the telemetry logs
MaxAppends == 2
\* clicks on the Search button, all sessions together
MaxSearches == 2

(***************************************************************************)
(* Text helpers: str.strip() and str.upper() of scheduler.py:119.          *)
(***************************************************************************)
LowerChars == <<"a","b","c","d","e","f","g","h","i","j","k","l","m",
                "n","o","p","q","r","s","t","u","v","w","x","y","z">>
UpperChars == <<"A","B","C","D","E","F","G","H","I","J","K","L","M",
                "N","O","P","Q","R","S","T","U","V","W","X","Y","Z">>

UpperChar(c) ==
    IF \E i \in DOMAIN LowerChars : LowerChars[i] = c
    THEN UpperChars[CHOOSE i \in DOMAIN LowerChars : LowerChars[i] = c]
    ELSE c

LowerChar(c) ==
    IF \E i \in DOMAIN UpperChars : UpperChars[i] = c
    THEN LowerChars[CHOOSE i \in DOMAIN UpperChars : UpperChars[i] = c]
    ELSE c

upper(s) == [i \in DOMAIN s |-> UpperChar(s[i])]
lower(s) == [i \in DOMAIN s |-> LowerChar(s[i])]

IsSpace(c) == c \in {" ", "\t", "\n"}

RECURSIVE lstrip(_)
lstrip(s) == IF s # <<>> /\ IsSpace(Head(s)) THEN lstrip(Tail(s)) ELSE s

RECURSIVE rstrip(_)
rstrip(s) ==
    IF s # <<>> /\ IsSpace(s[Len(s)]) THEN rstrip(SubSeq(s, 1, Len(s) - 1)) ELSE s

strip(s) == rstrip(lstrip(s))

\* the names uppercased but not trimmed
NormalizeColumnsNoStrip(cols) == [i \in DOMAIN cols |-> upper(cols[i])]

\* c.strip().upper() for every column name of the frame
NormalizeColumns(cols) == [i \in DOMAIN cols |-> upper(strip(cols[i]))]

(***************************************************************************)
(* Column names and REQUIRED_COLS.                                         *)
(***************************************************************************)
DOC_NAME    == <<"D","O","C","_","N","A","M","E">>
PAGE_NUM    == <<"P","A","G","E","_","N","U","M">>
CHUNK_ID    == <<"C","H","U","N","K","_","I","D">>
CHUNK_TEXT  == <<"C","H","U","N","K","_","T","E","X","T">>
TEXT_LENGTH == <<"T","E","X","T","_","L","E","N","G","T","H">>

REQUIRED_COLS == {DOC_NAME, PAGE_NUM, CHUNK_ID, CHUNK_TEXT, TEXT_LENGTH}

(***************************************************************************)
(* The files the environment can place in the inbox.  A file content is a  *)
(* header (raw column names) and rows aligned with the header; NaN is a    *)
(* missing cell.  Contents are named; the name stands for the bytes.       *)
(***************************************************************************)
NaN == <<"NaN">>

HeaderStd == <<DOC_NAME, PAGE_NUM, CHUNK_ID, CHUNK_TEXT, TEXT_LENGTH>>
HeaderRaw == << <<" ","d","o","c","_","n","a","m","e">>,
                <<"p","a","g","e","_","n","u","m"," ">>,
                <<"C","h","u","n","k","_","I","d">>,
                <<"c","h","u","n","k","_","t","e","x","t">>,
                <<"t","e","x","t","_","l","e","n","g","t","h">>,
                <<"e","x","t","r","a">> >>
HeaderNoText == <<DOC_NAME, PAGE_NUM, CHUNK_ID, TEXT_LENGTH>>

TextParking == <<"p","a","r","k","i","n","g"," ","p","e","r","m","i","t">>
TextPermit  == <<"P","e","r","m","i","t"," ","f","e","e">>
TextLibrary == <<"l","i","b","r","a","r","y">>

Contents == {"A", "B", "X"}

FileData(c) ==
    CASE c = "A" -> [header |-> HeaderStd,
                     rows |-> << <<"a.pdf", 1, "1", TextParking, 0>>,
                                 <<"a.pdf", 1, "2", TextPermit, 10>> >>]
      [] c = "B" -> [header |-> HeaderRaw,
                     rows |-> << <<"b.pdf", 2, "1", TextLibrary, 7, "x">>,
                                 <<"b.pdf", 2, "2", NaN, 0, "y">> >>]
      [] c = "X" -> [header |-> HeaderNoText,
                     rows |-> << <<"x.pdf", 1, "1", 5>> >>]

\* the contents that lack a required column
LackingContents == {"X"}

\* file names; glob's "*.csv" keeps the names ending in .csv
Names == {"f1.csv", "f2.csv", "readme.txt"}
IsCsv(f) == f \in {"f1.csv", "f2.csv"}

NoFile == "none"

Procs == {"sched", "app"}

(***************************************************************************)
(* State.                                                                  *)
(***************************************************************************)
VARIABLES
    inbox,                \* INBOX_DIR: file name -> content, or NoFile
    doneDir,              \* DONE_DIR:  file name -> content, or NoFile
    logTable,             \* INGEST_LOG exists in the store
    INGEST_LOG,           \* the records of INGEST_LOG: record -> copies
    DOC_CHUNKS_FEATURED,  \* the rows of DOC_CHUNKS_FEATURED: row -> copies
    pc,                   \* where each process is in run_once / ingest_csv
    loc,                  \* the locals of each process
    ret,                  \* how the last run_once of each process ended
    lastCall,             \* how the last ingest_csv call of each process ended
    hist,                 \* history of the ingest_csv calls that ended
    runs,                 \* run_once calls started by each process
    drops,                \* files placed so far
    faults,               \* failures injected so far
    now,                  \* the clock, in seconds
    cache,                \* the entries of cached_retrieval's cache, by key
    lastGet,              \* history: the last cached_retrieval call
    call,                 \* history: the last call of a function of the app
    wi,                   \* run_whatif: its position, locals and result
    search,               \* the search handler of each session: position, locals
    EVAL_METRICS,         \* the records of EVAL_METRICS: record -> copies
    FEATURE_STORE         \* the records of FEATURE_STORE: record -> copies

vars == <<inbox, doneDir, logTable, INGEST_LOG, DOC_CHUNKS_FEATURED,
          pc, loc, ret, lastCall, hist, runs, drops, faults, now,
          cache, lastGet, call, wi, search, EVAL_METRICS, FEATURE_STORE>>

storeVars == <<logTable, INGEST_LOG, DOC_CHUNKS_FEATURED>>
fsVars == <<inbox, doneDir>>
appVars == <<cache, lastGet>>
telemetryVars == <<EVAL_METRICS, FEATURE_STORE>>
fnVars == <<call, wi, search, telemetryVars>>
envVars == <<drops, now, appVars, fnVars>>

(***************************************************************************)
(* A table is a multiset of rows.                                          *)
(***************************************************************************)
EmptyTable == <<>>

Copies(table, row) == IF row \in DOMAIN table THEN table[row] ELSE 0

\* the new row takes the place of the table's rows
InsertRowOverwriting(table, row) == [r \in {row} |-> 1]

InsertRow(table, row) ==
    IF row \in DOMAIN table
    THEN [table EXCEPT ![row] = @ + 1]
    ELSE [r \in DOMAIN table \cup {row} |-> IF r = row THEN 1 ELSE table[r]]

RECURSIVE InsertRows(_, _)
InsertRows(table, rows) ==
    IF rows = <<>> THEN table
    ELSE InsertRows(InsertRow(table, Head(rows)), Tail(rows))

RECURSIVE CountRows(_, _)
CountRows(table, S) ==
    IF S = {} THEN 0
    ELSE LET r == CHOOSE x \in S : TRUE
         IN table[r] + CountRows(table, S \ {r})

NoError == [kind |-> "", cols |-> {}]

(***************************************************************************)
(* The queries and result-count bounds the callers pass to                 *)
(* cached_retrieval, and the shape of its cache.                           *)
(***************************************************************************)
\* the default question of app.py:224
QueryPermit == <<"H","o","w"," ","m","u","c","h"," ","i","s"," ","a"," ",
                 "p","a","r","k","i","n","g"," ","p","e","r","m","i","t","?">>
\* a question made of stopwords and short tokens
QueryHow == <<"H","o","w"," ","m","u","c","h"," ","i","s"," ","i","t","?">>

Queries == {QueryPermit, QueryHow}
\* the (query, topk) pairs the callers of the model pass
CacheKeys == {<<QueryPermit, 8>>, <<QueryHow, 8>>}
TopKs == {key[2] : key \in CacheKeys}

NoFrame == <<>>
NoValue == [df |-> NoFrame, terms |-> <<>>]
NoEntry == [present |-> FALSE, created |-> 0, value |-> NoValue]
NoGet ==
    [key |-> <<>>, at |-> 0, before |-> NoEntry, status |-> "none",
     value |-> NoValue, queried |-> 0]

\* no call of a function of the app has been made
NoFn == [op |-> "none"]

\* the browser sessions of the app
Sessions == {"s1", "s2"}

\* no search is under way and none has ended
NoSearch == [pc |-> "idle", run_id |-> <<>>, q |-> <<>>, df |-> <<>>,
             terms |-> <<>>, retrieval_ms |-> 0, status |-> "none", clicks |-> 0]

\* run_whatif has not been called
NoWhatIf == [pc |-> "idle", scenarios |-> <<>>, i |-> 0, records |-> <<>>,
             got |-> <<>>, failedAt |-> 0, status |-> "none"]

NoLocals ==
    [files |-> <<>>, i |-> 0, results |-> <<>>, fhash |-> NoFile,
     ingest_id |-> <<>>, df |-> <<>>, e |-> NoError,
     content |-> NoFile, inserted |-> FALSE, prior |-> FALSE, after |-> FALSE]

NoCall ==
    [file |-> NoFile, content |-> NoFile, status |-> "none", e |-> NoError,
     inserted |-> FALSE, prior |-> FALSE, after |-> FALSE]

Range(s) == {s[i] : i \in DOMAIN s}

\* path of the file the process is ingesting
CurFile(p) == loc[p].files[loc[p].i]

(***************************************************************************)
(* file_hash: the digest is a function of the bytes alone, never of the    *)
(* name; the content's name stands for its digest.                         *)
(***************************************************************************)
\* the digest taken of the path instead of the bytes
file_hash_of_name(path) == path

file_hash(path) == inbox[path]

(***************************************************************************)
(* already_ingested: the count of success records of the hash is > 0.      *)
(***************************************************************************)
SuccessRecords(fhash) ==
    {r \in DOMAIN INGEST_LOG : r.FILE_HASH = fhash /\ r.STATUS = "success"}

SuccessCount(fhash) == CountRows(INGEST_LOG, SuccessRecords(fhash))

\* a success record of any hash counts
already_ingested_any_hash(fhash) ==
    \E r \in DOMAIN INGEST_LOG : r.STATUS = "success"

already_ingested(fhash) == SuccessCount(fhash) > 0

(***************************************************************************)
(* The frame ingest_csv builds from a file: lines 117-127 and 137-141.     *)
(***************************************************************************)
Col(cols, row, name) == row[CHOOSE i \in DOMAIN cols : cols[i] = name]

MissingColumns(cols) == REQUIRED_COLS \ Range(cols)

\* df[list(REQUIRED_COLS)].dropna(subset=["CHUNK_TEXT"]), TEXT_LENGTH recomputed
CleanFrame(cols, rows) ==
    LET kept == SelectSeq(rows, LAMBDA r : Col(cols, r, CHUNK_TEXT) # NaN)
    IN [i \in DOMAIN kept |->
          [DOC_NAME    |-> Col(cols, kept[i], DOC_NAME),
           PAGE_NUM    |-> Col(cols, kept[i], PAGE_NUM),
           CHUNK_ID    |-> Col(cols, kept[i], CHUNK_ID),
           CHUNK_TEXT  |-> Col(cols, kept[i], CHUNK_TEXT),
           TEXT_LENGTH |-> Len(Col(cols, kept[i], CHUNK_TEXT))]]

LogRecord(ingest_id, fname, fhash, rows, status, error) ==
    [INGEST_ID |-> ingest_id, FILE_NAME |-> fname, FILE_HASH |-> fhash,
     ROWS_INGESTED |-> rows, STATUS |-> status, ERROR_MSG |-> error]

(***************************************************************************)
(* Initial state: empty directories, empty store, both processes idle.     *)
(***************************************************************************)
Init ==
    /\ inbox = [f \in Names |-> NoFile]
    /\ doneDir = [f \in Names |-> NoFile]
    /\ logTable = FALSE
    /\ INGEST_LOG = EmptyTable
    /\ DOC_CHUNKS_FEATURED = EmptyTable
    /\ pc = [p \in Procs |-> "idle"]
    /\ loc = [p \in Procs |-> NoLocals]
    /\ ret = [p \in Procs |-> [kind |-> "none", files |-> <<>>, results |-> <<>>]]
    /\ lastCall = [p \in Procs |-> NoCall]
    /\ hist = [succeeded |-> {}, stopped |-> {}]
    /\ runs = [p \in Procs |-> 0]
    /\ drops = 0
    /\ faults = 0
    /\ now = 0
    /\ cache = [key \in CacheKeys |-> NoEntry]
    /\ lastGet = NoGet
    /\ call = NoFn
    /\ wi = NoWhatIf
    /\ search = [s \in Sessions |-> NoSearch]
    /\ EVAL_METRICS = EmptyTable
    /\ FEATURE_STORE = EmptyTable

(***************************************************************************)
(* Environment: a new file is placed in the inbox (an operator's copy, or  *)
(* the upload of app.py:425-429).                                          *)
(***************************************************************************)
Drop(f, c) ==
    /\ drops < MaxDrops
    /\ inbox[f] = NoFile
    /\ inbox' = [inbox EXCEPT ![f] = c]
    /\ drops' = drops + 1
    /\ UNCHANGED <<doneDir, storeVars, pc, loc, ret, lastCall, hist, runs,
                   faults, now, appVars, fnVars>>

(***************************************************************************)
(* How an ingest_csv call ends.  lastCall and hist are history: what the   *)
(* call was (its file, its bytes, whether its batch committed, whether an   *)
(* earlier call on the same content had returned success or had stopped    *)
(* after its batch committed) and how it ended.                            *)
(***************************************************************************)
CallRecord(p, status) ==
    [file |-> CurFile(p), content |-> loc[p].content, status |-> status,
     e |-> loc[p].e, inserted |-> loc[p].inserted,
     prior |-> loc[p].prior, after |-> loc[p].after]

EndCall(p, status) ==
    /\ lastCall' = [lastCall EXCEPT ![p] = CallRecord(p, status)]
    /\ hist' = [succeeded |->
                  IF status = "success"
                  THEN hist.succeeded \cup {loc[p].content} ELSE hist.succeeded,
                stopped |->
                  IF status # "success" /\ loc[p].inserted
                  THEN hist.stopped \cup {<<CurFile(p), loc[p].content>>}
                  ELSE hist.stopped]

\* ingest_csv returns outcome o; run_once appends it and goes on (lines 166-168)
Return(p, o) ==
    LET l == loc[p]
        rs == Append(l.results, o)
    IN /\ EndCall(p, o.status)
       /\ IF l.i = Len(l.files)
          THEN /\ pc' = [pc EXCEPT ![p] = "idle"]
               /\ loc' = [loc EXCEPT ![p] = NoLocals]
               /\ ret' = [ret EXCEPT ![p] =
                            [kind |-> "returned", files |-> l.files, results |-> rs]]
          ELSE /\ pc' = [pc EXCEPT ![p] = "hash"]
               /\ loc' = [loc EXCEPT ![p] =
                            [NoLocals EXCEPT !.files = l.files, !.i = l.i + 1,
                                             !.results = rs]]
               /\ UNCHANGED ret

\* an exception leaves ingest_csv and run_once uncaught: the polling loop of
\* lines 193-197 has no handler and the process ends; the app's script run ends
\* and the session waits for the next click
Raise(p) ==
    /\ EndCall(p, "raised")
    /\ pc' = [pc EXCEPT ![p] = IF p = "sched" THEN "dead" ELSE "idle"]
    /\ loc' = [loc EXCEPT ![p] = NoLocals]
    /\ ret' = [ret EXCEPT ![p] =
                 [kind |-> "raised", files |-> loc[p].files,
                  results |-> loc[p].results]]

\* an exception inside the try block: control goes to the handler of line 155
Except(p, e) ==
    /\ pc' = [pc EXCEPT ![p] = "logfail"]
    /\ loc' = [loc EXCEPT ![p].e = e]
    /\ UNCHANGED <<ret, lastCall, hist>>

Fault ==
    /\ faults < MaxFaults
    /\ faults' = faults + 1

Outcome(file, status, rows, error) ==
    [file |-> file, status |-> status, rows |-> rows, error |-> error]

(***************************************************************************)
(* run_once, lines 159-168: list the candidates, then ingest each in turn. *)
(* glob returns the directory's entries in the operating system's order.   *)
(***************************************************************************)
Listings(S) ==
    {s \in [1..Cardinality(S) -> S] : \A i, j \in DOMAIN s : i # j => s[i] # s[j]}

Candidates == {f \in Names : IsCsv(f) /\ inbox[f] # NoFile}

RunLimit(p) == IF p = "sched" THEN MaxRuns ELSE MaxClicks

RunOnce(p) ==
    /\ pc[p] = "idle"
    /\ runs[p] < RunLimit(p)
    /\ runs' = [runs EXCEPT ![p] = runs[p] + 1]
    /\ \E files \in Listings(Candidates) :
         IF files = <<>>
         THEN /\ ret' = [ret EXCEPT ![p] =
                          [kind |-> "returned", files |-> <<>>, results |-> <<>>]]
              /\ UNCHANGED <<pc, loc>>
         ELSE /\ pc' = [pc EXCEPT ![p] = "hash"]
              /\ loc' = [loc EXCEPT ![p] = [NoLocals EXCEPT !.files = files, !.i = 1]]
              /\ UNCHANGED ret
    /\ UNCHANGED <<fsVars, storeVars, envVars, faults, lastCall, hist>>

(***************************************************************************)
(* ingest_csv, lines 105-157, one action per store round trip or file      *)
(* operation.                                                              *)
(***************************************************************************)
\* lines 107-109: file_hash opens the file; a file that is gone raises
\* FileNotFoundError outside the try block
FileHash(p) ==
    /\ pc[p] = "hash"
    /\ IF inbox[CurFile(p)] = NoFile
       THEN Raise(p)
       ELSE /\ pc' = [pc EXCEPT ![p] = "ensure"]
            /\ loc' = [loc EXCEPT
                 ![p].fhash = file_hash(CurFile(p)),
                 ![p].ingest_id = <<now, file_hash(CurFile(p))>>,
                 ![p].content = inbox[CurFile(p)],
                 ![p].prior = inbox[CurFile(p)] \in hist.succeeded,
                 ![p].after = <<CurFile(p), inbox[CurFile(p)]>> \in hist.stopped]
            /\ UNCHANGED <<ret, lastCall, hist>>
    /\ UNCHANGED <<fsVars, storeVars, envVars, faults, runs>>

\* line 111: CREATE TABLE IF NOT EXISTS INGEST_LOG
EnsureLogTable(p) ==
    /\ pc[p] = "ensure"
    /\ logTable' = TRUE
    /\ pc' = [pc EXCEPT ![p] = "check"]
    /\ UNCHANGED <<fsVars, INGEST_LOG, DOC_CHUNKS_FEATURED, loc, ret, runs,
                   envVars, faults, lastCall, hist>>

\* line 111 when the store cannot be reached: raised outside the try block
EnsureLogTableFail(p) ==
    /\ pc[p] = "ensure"
    /\ Fault
    /\ Raise(p)
    /\ UNCHANGED <<fsVars, storeVars, envVars, runs>>

\* a skip that also archives the file
AlreadyIngestedArchive(p) ==
    /\ pc[p] = "check"
    /\ logTable
    /\ IF already_ingested(loc[p].fhash)
       THEN /\ Return(p, Outcome(CurFile(p), "skipped", 0, NoError))
            /\ inbox' = [inbox EXCEPT ![CurFile(p)] = NoFile]
            /\ doneDir' = [doneDir EXCEPT ![CurFile(p)] = inbox[CurFile(p)]]
       ELSE /\ pc' = [pc EXCEPT ![p] = "read"]
            /\ UNCHANGED <<loc, ret, lastCall, hist, fsVars>>
    /\ UNCHANGED <<storeVars, envVars, faults, runs>>

\* lines 113-114
AlreadyIngested(p) ==
    /\ pc[p] = "check"
    /\ logTable
    /\ IF already_ingested(loc[p].fhash)
       THEN Return(p, Outcome(CurFile(p), "skipped", 0, NoError))
       ELSE /\ pc' = [pc EXCEPT ![p] = "read"]
            /\ UNCHANGED <<loc, ret, lastCall, hist>>
    /\ UNCHANGED <<fsVars, storeVars, envVars, faults, runs>>

\* line 113 when the store cannot be reached: raised outside the try block
AlreadyIngestedFail(p) ==
    /\ pc[p] = "check"
    /\ Fault
    /\ Raise(p)
    /\ UNCHANGED <<fsVars, storeVars, envVars, runs>>

\* lines 117-127: read, normalise the column names, validate, clean
ReadCsv(p) ==
    /\ pc[p] = "read"
    /\ IF inbox[CurFile(p)] = NoFile
       THEN Except(p, [kind |-> "FileNotFoundError", cols |-> {}])
       ELSE LET data == FileData(inbox[CurFile(p)])
                cols == NormalizeColumns(data.header)
                missing == MissingColumns(cols)
            IN IF missing # {}
               THEN Except(p, [kind |-> "Missing columns", cols |-> missing])
               ELSE /\ pc' = [pc EXCEPT ![p] = "insert"]
                    /\ loc' = [loc EXCEPT ![p].df = CleanFrame(cols, data.rows)]
                    /\ UNCHANGED <<ret, lastCall, hist>>
    /\ UNCHANGED <<fsVars, storeVars, envVars, faults, runs>>

\* the commit also empties the retrieval cache
InsertBatchClearingCache(p) ==
    /\ pc[p] = "insert"
    /\ DOC_CHUNKS_FEATURED' = InsertRows(DOC_CHUNKS_FEATURED, loc[p].df)
    /\ pc' = [pc EXCEPT ![p] = "logok"]
    /\ loc' = [loc EXCEPT ![p].inserted = TRUE]
    /\ cache' = [key \in CacheKeys |-> NoEntry]
    /\ UNCHANGED <<fsVars, logTable, INGEST_LOG, ret, runs, drops, now, lastGet,
                   fnVars, faults, lastCall, hist>>

\* lines 129-145: one batch, committed as a whole
InsertBatch(p) ==
    /\ pc[p] = "insert"
    /\ DOC_CHUNKS_FEATURED' = InsertRows(DOC_CHUNKS_FEATURED, loc[p].df)
    /\ pc' = [pc EXCEPT ![p] = "logok"]
    /\ loc' = [loc EXCEPT ![p].inserted = TRUE]
    /\ UNCHANGED <<fsVars, logTable, INGEST_LOG, ret, runs, envVars, faults,
                   lastCall, hist>>

\* lines 129-145 when the batch call raises: nothing is committed
InsertBatchFail(p) ==
    /\ pc[p] = "insert"
    /\ Fault
    /\ Except(p, [kind |-> "InsertError", cols |-> {}])
    /\ UNCHANGED <<fsVars, storeVars, envVars, runs>>

\* the success record is not written before the move
WriteLogSuccessOmitted(p) ==
    /\ pc[p] = "logok"
    /\ logTable
    /\ pc' = [pc EXCEPT ![p] = "move"]
    /\ UNCHANGED <<fsVars, storeVars, loc, ret, runs,
                   envVars, faults, lastCall, hist>>

\* line 147
WriteLogSuccess(p) ==
    /\ pc[p] = "logok"
    /\ logTable
    /\ INGEST_LOG' = InsertRow(INGEST_LOG,
          LogRecord(loc[p].ingest_id, CurFile(p), loc[p].fhash, Len(loc[p].df),
                    "success", NoError))
    /\ pc' = [pc EXCEPT ![p] = "move"]
    /\ UNCHANGED <<fsVars, logTable, DOC_CHUNKS_FEATURED, loc, ret, runs,
                   envVars, faults, lastCall, hist>>

\* line 147 when write_log raises: caught by the handler of line 155
WriteLogSuccessFail(p) ==
    /\ pc[p] = "logok"
    /\ Fault
    /\ Except(p, [kind |-> "LogError", cols |-> {}])
    /\ UNCHANGED <<fsVars, storeVars, envVars, runs>>

\* lines 150-153: os.rename, then the success outcome
MoveToDone(p) ==
    /\ pc[p] = "move"
    /\ IF inbox[CurFile(p)] = NoFile
       THEN /\ Except(p, [kind |-> "FileNotFoundError", cols |-> {}])
            /\ UNCHANGED fsVars
       ELSE /\ inbox' = [inbox EXCEPT ![CurFile(p)] = NoFile]
            /\ doneDir' = [doneDir EXCEPT ![CurFile(p)] = inbox[CurFile(p)]]
            /\ Return(p, Outcome(CurFile(p), "success", Len(loc[p].df), NoError))
    /\ UNCHANGED <<storeVars, envVars, faults, runs>>

\* line 151 when os.rename raises (permissions, a full or read-only volume)
MoveToDoneFail(p) ==
    /\ pc[p] = "move"
    /\ Fault
    /\ Except(p, [kind |-> "RenameError", cols |-> {}])
    /\ UNCHANGED <<fsVars, storeVars, envVars, runs>>

\* the handler reports the attempt as a success
WriteLogFailReturnsSuccess(p) ==
    /\ pc[p] = "logfail"
    /\ logTable
    /\ INGEST_LOG' = InsertRow(INGEST_LOG,
          LogRecord(loc[p].ingest_id, CurFile(p), loc[p].fhash, 0, "fail", loc[p].e))
    /\ Return(p, Outcome(CurFile(p), "success", 0, loc[p].e))
    /\ UNCHANGED <<fsVars, logTable, DOC_CHUNKS_FEATURED, envVars, faults, runs>>

\* lines 155-157
WriteLogFail(p) ==
    /\ pc[p] = "logfail"
    /\ logTable
    /\ INGEST_LOG' = InsertRow(INGEST_LOG,
          LogRecord(loc[p].ingest_id, CurFile(p), loc[p].fhash, 0, "fail", loc[p].e))
    /\ Return(p, Outcome(CurFile(p), "fail", 0, loc[p].e))
    /\ UNCHANGED <<fsVars, logTable, DOC_CHUNKS_FEATURED, envVars, faults, runs>>

\* line 156 when write_log raises inside the handler: nothing catches it
WriteLogFailFail(p) ==
    /\ pc[p] = "logfail"
    /\ Fault
    /\ Raise(p)
    /\ UNCHANGED <<fsVars, storeVars, envVars, runs>>

IngestStep(p) ==
    \/ RunOnce(p)
    \/ FileHash(p)
    \/ EnsureLogTable(p)
    \/ AlreadyIngested(p)
    \/ ReadCsv(p)
    \/ InsertBatch(p)
    \/ WriteLogSuccess(p)
    \/ MoveToDone(p)
    \/ WriteLogFail(p)

IngestFault(p) ==
    \/ EnsureLogTableFail(p)
    \/ AlreadyIngestedFail(p)
    \/ InsertBatchFail(p)
    \/ WriteLogSuccessFail(p)
    \/ MoveToDoneFail(p)
    \/ WriteLogFailFail(p)

DropFile == \E f \in Names, c \in Contents : Drop(f, c)

(***************************************************************************)
(* Feature engineering: extract_keywords, app.py:66-73.                    *)
(***************************************************************************)
STOPWORDS == {
    <<"a">>, <<"a","n">>, <<"t","h","e">>, <<"a","n","d">>, <<"o","r">>,
    <<"b","u","t">>, <<"i","f">>, <<"t","h","e","n">>, <<"e","l","s","e">>,
    <<"s","o">>, <<"i","s">>, <<"a","r","e">>, <<"w","a","s">>,
    <<"w","e","r","e">>, <<"b","e">>, <<"b","e","e","n">>,
    <<"b","e","i","n","g">>, <<"d","o">>, <<"d","o","e","s">>,
    <<"d","i","d">>, <<"t","o">>, <<"o","f">>, <<"i","n">>, <<"o","n">>,
    <<"f","o","r">>, <<"w","i","t","h">>, <<"a","t">>, <<"b","y">>,
    <<"f","r","o","m">>, <<"a","s">>, <<"h","o","w">>, <<"m","u","c","h">>,
    <<"m","a","n","y">>, <<"w","h","a","t">>, <<"w","h","e","n">>,
    <<"w","h","e","r","e">>, <<"w","h","o">>, <<"w","h","o","m">>,
    <<"w","h","y">>, <<"i">>, <<"m","e">>, <<"m","y">>, <<"y","o","u">>,
    <<"y","o","u","r">>, <<"w","e">>, <<"o","u","r">>, <<"t","h","e","y">>,
    <<"t","h","e","i","r">>, <<"c","a","n">>, <<"c","o","u","l","d">>,
    <<"s","h","o","u","l","d">>, <<"w","o","u","l","d">>, <<"m","a","y">>,
    <<"m","i","g","h","t">>, <<"w","i","l","l">>, <<"s","h","a","l","l">> }

Digits == {"0","1","2","3","4","5","6","7","8","9"}

\* [a-zA-Z0-9] on the lowercased text
IsAlnum(c) == c \in Range(LowerChars) \cup Digits

\* re.findall(r"[a-zA-Z0-9]+", s): the maximal runs, left to right
RECURSIVE FindAll(_, _, _)
FindAll(s, cur, acc) ==
    IF s = <<>>
    THEN IF cur = <<>> THEN acc ELSE Append(acc, cur)
    ELSE IF IsAlnum(Head(s))
         THEN FindAll(Tail(s), Append(cur, Head(s)), acc)
         ELSE FindAll(Tail(s), <<>>, IF cur = <<>> THEN acc ELSE Append(acc, cur))

\* the loop of lines 69-72: first occurrences, in order
RECURSIVE Uniq(_, _)
Uniq(terms, uniq) ==
    IF terms = <<>> THEN uniq
    ELSE Uniq(Tail(terms),
              IF Head(terms) \in Range(uniq) THEN uniq ELSE Append(uniq, Head(terms)))

\* no truncation
PrefixAll(s, m) == s

\* Python's s[:m]
Prefix(s, m) ==
    IF m >= 0
    THEN SubSeq(s, 1, IF m < Len(s) THEN m ELSE Len(s))
    ELSE SubSeq(s, 1, IF Len(s) + m > 0 THEN Len(s) + m ELSE 0)

DefaultMaxTerms == 6

\* Python's None, and (query or ""): None and "" both give ""
None == <<"None">>
OrEmpty(query) == IF query = None THEN <<>> ELSE query

\* the stopwords stay among the terms
extract_keywords_keep_stopwords(query, max_terms) ==
    LET tokens == FindAll(lower(OrEmpty(query)), <<>>, <<>>)
        terms == SelectSeq(tokens, LAMBDA w : Len(w) >= 3)
    IN Prefix(Uniq(terms, <<>>), max_terms)

\* the short tokens stay among the terms
extract_keywords_keep_short(query, max_terms) ==
    LET tokens == FindAll(lower(OrEmpty(query)), <<>>, <<>>)
        terms == SelectSeq(tokens, LAMBDA w : w \notin STOPWORDS)
    IN Prefix(Uniq(terms, <<>>), max_terms)

extract_keywords(query, max_terms) ==
    LET tokens == FindAll(lower(OrEmpty(query)), <<>>, <<>>)
        terms == SelectSeq(tokens, LAMBDA w : w \notin STOPWORDS /\ Len(w) >= 3)
    IN Prefix(Uniq(terms, <<>>), max_terms)

(***************************************************************************)
(* Core retrieval: _run_retrieval, app.py:151-180.                         *)
(***************************************************************************)
\* CHUNK_TEXT ILIKE '%term%': term is a lowercase alphanumeric run, so the
\* pattern has no wildcard of its own
ILike(text, term) ==
    LET low == lower(text)
    IN \E i \in 1..(Len(text) - Len(term) + 1) :
           SubSeq(low, i, i + Len(term) - 1) = term

RECURSIVE Score(_, _)
Score(text, terms) ==
    IF terms = <<>> THEN 0
    ELSE (IF ILike(text, Head(terms)) THEN 1 ELSE 0) + Score(text, Tail(terms))

Scored(row, terms) ==
    [DOC_NAME |-> row.DOC_NAME, PAGE_NUM |-> row.PAGE_NUM,
     CHUNK_ID |-> row.CHUNK_ID, CHUNK_TEXT |-> row.CHUNK_TEXT,
     TEXT_LENGTH |-> row.TEXT_LENGTH, SCORE |-> Score(row.CHUNK_TEXT, terms)]

\* WHERE ... OR ...: the rows that hold at least one term
Matching(table, terms) ==
    {r \in DOMAIN table : \E i \in DOMAIN terms : ILike(r.CHUNK_TEXT, terms[i])}

\* ORDER BY SCORE ASC, TEXT_LENGTH ASC
BeforeAscending(a, b) ==
    \/ a.SCORE < b.SCORE
    \/ a.SCORE = b.SCORE /\ a.TEXT_LENGTH <= b.TEXT_LENGTH

\* ORDER BY SCORE DESC, TEXT_LENGTH DESC
Before(a, b) ==
    \/ a.SCORE > b.SCORE
    \/ a.SCORE = b.SCORE /\ a.TEXT_LENGTH >= b.TEXT_LENGTH

\* every order the store may return the matching rows in: each row as often
\* as the table holds it, sorted; rows that tie may come in any order
Orderings(table, terms) ==
    LET M == Matching(table, terms)
        n == CountRows(table, M)
        scored == [r \in M |-> Scored(r, terms)]
    IN {s \in [1..n -> {scored[r] : r \in M}] :
          /\ \A r \in M :
               Cardinality({i \in 1..n : s[i] = scored[r]}) = table[r]
          /\ \A i, j \in 1..n : i < j => Before(s[i], s[j])}

\* LIMIT topk
Limit(s, topk) == SubSeq(s, 1, IF topk < Len(s) THEN topk ELSE Len(s))

\* line 152 for the queries of the model, computed once
KeywordsOf == [q \in Queries |-> extract_keywords(q, DefaultMaxTerms)]

Keywords(user_query) ==
    IF user_query \in Queries THEN KeywordsOf[user_query]
    ELSE extract_keywords(user_query, DefaultMaxTerms)

\* the values _run_retrieval can return for a query the store answers
RunRetrieval(user_query, topk, table) ==
    LET terms == Keywords(user_query)
    IN IF terms = <<>>
       THEN {[df |-> NoFrame, terms |-> terms]}
       ELSE {[df |-> Limit(s, topk), terms |-> terms] : s \in Orderings(table, terms)}

\* a connection is opened whatever the terms
QueriesStoreAlways(user_query) == TRUE

\* whether _run_retrieval opens a connection to the store (lines 153-154)
QueriesStore(user_query) == Keywords(user_query) # <<>>

\* How a call of _run_retrieval can end, with the store answering: status,
\* returned value, and the row limits of the statements sent to the store.
\* The limit is int(topk) as it is (line 164); what the store answers to a
\* negative limit is the store's choice: an error, or the rows unlimited.
RetrievalOutcomes(user_query, topk, table) ==
    LET terms == Keywords(user_query)
    IN IF ~QueriesStore(user_query)
       THEN {[status |-> "returned", value |-> [df |-> NoFrame, terms |-> terms],
              sent |-> <<>>]}
       ELSE IF topk >= 0
            THEN {[status |-> "returned", value |-> v, sent |-> <<topk>>] :
                     v \in {[df |-> Limit(s, topk), terms |-> terms] :
                               s \in Orderings(table, terms)}}
            ELSE {[status |-> "raised", value |-> NoValue, sent |-> <<topk>>]}
                 \cup {[status |-> "returned",
                         value |-> [df |-> s, terms |-> terms],
                         sent |-> <<topk>>] : s \in Orderings(table, terms)}

(***************************************************************************)
(* _run_retrieval called on its own, over a corpus that does not change.   *)
(***************************************************************************)
TextAll == <<"H","o","w"," ","m","u","c","h"," ","i","s"," ","a"," ",
             "P","a","r","k","i","n","g"," ","p","e","r","m","i","t">>
TextTwo == <<"m","u","c","h"," ","p","a","r","k","i","n","g">>

Chunk(id, text) ==
    [DOC_NAME |-> "c.pdf", PAGE_NUM |-> 1, CHUNK_ID |-> id,
     CHUNK_TEXT |-> text, TEXT_LENGTH |-> Len(text)]

SampleRows == {Chunk("1", TextAll), Chunk("2", TextTwo),
               Chunk("3", TextLibrary), Chunk("4", TextPermit)}

\* the store holds any of the sample rows, once each
Corpora == {[r \in S |-> 1] : S \in SUBSET SampleRows}

QueryBlank == <<" ", "\t", " ">>
QueryDup == <<"P","a","r","k","i","n","g"," ","P","A","R","K","I","N","G",
              " ","f","e","e">>
FnQueries == Queries \cup {None, <<>>, QueryBlank, QueryDup}
FnTopKs == {-1, 0, 1, 2, 3}

run_retrieval(user_query, topk) ==
    /\ \E out \in RetrievalOutcomes(user_query, topk, DOC_CHUNKS_FEATURED) :
         call' = [op |-> "_run_retrieval", query |-> user_query, topk |-> topk,
                  status |-> out.status, value |-> out.value, sent |-> out.sent]
    /\ UNCHANGED <<fsVars, storeVars, pc, loc, ret, lastCall, hist, runs,
                   drops, faults, now, appVars, wi, search, telemetryVars>>

RunRetrievalCall == \E q \in FnQueries, k \in FnTopKs : run_retrieval(q, k)

(***************************************************************************)
(* cached_retrieval, app.py:147-149: st.cache_data(ttl=120) keeps one      *)
(* entry per (query, topk); an entry answers the calls made less than ttl  *)
(* seconds after it was stored; a call that finds no such entry runs       *)
(* _run_retrieval and stores what it returns; an exception is not stored.  *)
(***************************************************************************)
TTL == 120

\* an entry that never expires
CacheValidForever(key) == cache[key].present

\* an entry answers a call made less than ttl seconds after it was stored
CacheValid(key) == cache[key].present /\ now - cache[key].created < TTL

cached_retrieval(query, topk) ==
    /\ <<query, topk>> \in CacheKeys
    /\ IF CacheValid(<<query, topk>>)
       THEN /\ lastGet' = [key |-> <<query, topk>>, at |-> now,
                           before |-> cache[<<query, topk>>],
                           status |-> "returned",
                           value |-> cache[<<query, topk>>].value, queried |-> 0]
            /\ UNCHANGED cache
       ELSE \E v \in RunRetrieval(query, topk, DOC_CHUNKS_FEATURED) :
              /\ cache' = [cache EXCEPT ![<<query, topk>>] =
                             [present |-> TRUE, created |-> now, value |-> v]]
              /\ lastGet' = [key |-> <<query, topk>>, at |-> now,
                             before |-> cache[<<query, topk>>],
                             status |-> "returned", value |-> v,
                             queried |-> IF QueriesStore(query) THEN 1 ELSE 0]
    /\ UNCHANGED <<fsVars, storeVars, pc, loc, ret, lastCall, hist, runs,
                   drops, faults, now>>

\* the store round trip of lines 170-176 raises: the exception leaves
\* _run_retrieval and cached_retrieval, and nothing is stored
cached_retrieval_fail(query, topk) ==
    /\ <<query, topk>> \in CacheKeys
    /\ ~CacheValid(<<query, topk>>)
    /\ QueriesStore(query)
    /\ lastGet' = [key |-> <<query, topk>>, at |-> now,
                   before |-> cache[<<query, topk>>],
                   status |-> "raised", value |-> NoValue, queried |-> 1]
    /\ UNCHANGED <<fsVars, storeVars, pc, loc, ret, lastCall, hist, runs,
                   drops, faults, now, cache>>

\* time passes
Instants ==
    {t \in {n * TTL + d : n \in 0..MaxPeriods, d \in {-1, 0, 1}} : t >= 0}

Tick ==
    /\ \E t \in Instants : t > now /\ now' = t
    /\ UNCHANGED <<fsVars, storeVars, pc, loc, ret, lastCall, hist, runs,
                   drops, faults, appVars, fnVars>>

\* the search handler's call, app.py:242
Retrieve ==
    /\ \E q \in Queries, k \in TopKs : cached_retrieval(q, k)
    /\ UNCHANGED fnVars

RetrieveFail ==
    /\ \E q \in Queries, k \in TopKs : cached_retrieval_fail(q, k)
    /\ UNCHANGED fnVars

(***************************************************************************)
(* run_whatif, app.py:183-199: one cached_retrieval call per scenario, in  *)
(* order, and one record per call; an exception of a call leaves the loop  *)
(* and the function.                                                       *)
(***************************************************************************)
\* wi_topk, a value of the slider of line 382
WhatIfTopK == 8

\* ms of line 189
Latencies == {0, 3}

\* ", ".join(terms)
RECURSIVE JoinTerms(_)
JoinTerms(terms) ==
    IF terms = <<>> THEN <<>>
    ELSE IF Len(terms) = 1 THEN Head(terms)
    ELSE Head(terms) \o <<",", " ">> \o JoinTerms(Tail(terms))

RECURSIVE SumScores(_)
SumScores(df) == IF df = <<>> THEN 0 ELSE Head(df).SCORE + SumScores(Tail(df))

\* round(float(df["SCORE"].mean()), 3) in thousandths, and 0 for an empty
\* frame (line 190); every frame has a SCORE column
AverageScore(df) ==
    IF df = <<>> THEN 0
    ELSE (2000 * SumScores(df) + Len(df)) \div (2 * Len(df))

\* the two counts exchanged
WhatIfRecordCountsSwapped(s, value, ms) ==
    [Scenario_Query |-> s, Keyword_Count |-> Len(value.df),
     Returned_Chunks |-> Len(value.terms),
     Average_Score |-> AverageScore(value.df), Latency_ms |-> ms,
     Keywords |-> JoinTerms(value.terms)]

\* the record of lines 191-198
WhatIfRecord(s, value, ms) ==
    [Scenario_Query |-> s, Keyword_Count |-> Len(value.terms),
     Returned_Chunks |-> Len(value.df),
     Average_Score |-> AverageScore(value.df), Latency_ms |-> ms,
     Keywords |-> JoinTerms(value.terms)]

ScenarioLists == UNION {[1..n -> Queries] : n \in 0..MaxScenarios}

WhatIfStart ==
    /\ wi.pc = "idle"
    /\ \E scenarios \in ScenarioLists :
         wi' = [pc |-> "loop", scenarios |-> scenarios, i |-> 1,
                records |-> <<>>, got |-> <<>>, failedAt |-> 0,
                status |-> "running"]
    /\ UNCHANGED <<fsVars, storeVars, pc, loc, ret, lastCall, hist, runs,
                   drops, faults, now, appVars, call, search, telemetryVars>>

\* lines 186-198: one pass of the loop
WhatIfStep ==
    /\ wi.pc = "loop"
    /\ wi.i <= Len(wi.scenarios)
    /\ cached_retrieval(wi.scenarios[wi.i], WhatIfTopK)
    /\ \E ms \in Latencies :
         wi' = [wi EXCEPT
                  !.i = @ + 1,
                  !.got = Append(@, lastGet'.value),
                  !.records = Append(@, WhatIfRecord(wi.scenarios[wi.i],
                                                     lastGet'.value, ms))]
    /\ UNCHANGED <<call, search, telemetryVars>>

\* line 188 raises: the exception leaves run_whatif
WhatIfStepFail ==
    /\ wi.pc = "loop"
    /\ wi.i <= Len(wi.scenarios)
    /\ cached_retrieval_fail(wi.scenarios[wi.i], WhatIfTopK)
    /\ wi' = [wi EXCEPT !.pc = "done", !.status = "raised", !.failedAt = wi.i,
                        !.records = <<>>]
    /\ UNCHANGED <<call, search, telemetryVars>>

\* line 199
WhatIfReturn ==
    /\ wi.pc = "loop"
    /\ wi.i > Len(wi.scenarios)
    /\ wi' = [wi EXCEPT !.pc = "done", !.status = "returned"]
    /\ UNCHANGED <<fsVars, storeVars, pc, loc, ret, lastCall, hist, runs,
                   drops, faults, now, appVars, call, search, telemetryVars>>

(***************************************************************************)
(* Telemetry: log_eval (evaluator.py:66-96, modeling/evaluator.py:72-105), *)
(* save_features (feature_store.py:62-79) and the recent-history reads.    *)
(* A float is a fraction <<numerator, denominator>> in lowest terms; the   *)
(* mean of no value is NaN.                                                *)
(***************************************************************************)
\* the two evaluator modules of the repository
Impls == {"evaluator", "modeling.evaluator"}

RECURSIVE GCD(_, _)
GCD(a, b) == IF b = 0 THEN a ELSE GCD(b, a % b)

Zero == <<0, 1>>
NaNScore == <<0, 0>>

Float(num, den) ==
    IF den = 0 THEN NaNScore
    ELSE <<num \div GCD(num, den), den \div GCD(num, den)>>

\* df_results = None: told apart from every frame of rows
NoResult == <<[NONE |-> TRUE]>>

ScoresOf(df) == {df[i].SCORE : i \in DOMAIN df}
MaxOf(S) == CHOOSE x \in S : \A y \in S : y <= x
MinOf(S) == CHOOSE x \in S : \A y \in S : x <= y

\* "SCORE" in df_results.columns, for a frame with rows
HasScore(df) == "SCORE" \in DOMAIN df[1]

\* scores.max() and scores.min() exchanged
EvalScoresMinMaxSwapped(impl, df) ==
    IF df = NoResult /\ impl = "evaluator"
    THEN [status |-> "raised"]
    ELSE IF df = NoResult \/ df = <<>> \/ ~HasScore(df)
         THEN [status |-> "ok", avg_s |-> Zero, max_s |-> Zero, min_s |-> Zero,
               rows_ret |-> 0]
         ELSE [status |-> "ok",
               avg_s |-> Float(SumScores(df), Len(df)),
               max_s |-> Float(MinOf(ScoresOf(df)), 1),
               min_s |-> Float(MaxOf(ScoresOf(df)), 1),
               rows_ret |-> Len(df)]

\* lines 72-80 (80-88 in modeling/evaluator.py): df_results.empty raises
\* AttributeError on None in evaluator.py, which has no "is None" test
EvalScores(impl, df) ==
    IF df = NoResult /\ impl = "evaluator"
    THEN [status |-> "raised"]
    ELSE IF df = NoResult \/ df = <<>> \/ ~HasScore(df)
         THEN [status |-> "ok", avg_s |-> Zero, max_s |-> Zero, min_s |-> Zero,
               rows_ret |-> 0]
         ELSE [status |-> "ok",
               avg_s |-> Float(SumScores(df), Len(df)),
               max_s |-> Float(MaxOf(ScoresOf(df)), 1),
               min_s |-> Float(MinOf(ScoresOf(df)), 1),
               rows_ret |-> Len(df)]

AllRows(table) == CountRows(table, DOMAIN table)

\* eval-{run_id}-{int(time.time())}, or eval-{run_id}-{uuid4}: a value no
\* record has yet
EvalId(impl, run_id) ==
    IF impl = "evaluator"
    THEN <<"eval", run_id, now>>
    ELSE <<"eval", run_id, "uuid", AllRows(EVAL_METRICS)>>

\* run_id of the search handler, app.py:237
RunId == <<"search", now>>

Appends == AllRows(EVAL_METRICS) + AllRows(FEATURE_STORE)

\* the values of the INSERT of evaluator.py:82-91
EvalRecord(impl, run_id, query, df_results, latency_ms, keyword_count, topk, version) ==
    LET s == EvalScores(impl, df_results)
    IN [EVAL_ID |-> EvalId(impl, run_id), RUN_ID |-> run_id,
        VERSION |-> version, QUERY_RAW |-> query, TOPK |-> topk,
        ROWS_RETURNED |-> s.rows_ret, AVG_SCORE |-> s.avg_s,
        MAX_SCORE |-> s.max_s, MIN_SCORE |-> s.min_s,
        LATENCY_MS |-> latency_ms, KEYWORD_COUNT |-> keyword_count]

log_eval(impl, run_id, query, df_results, latency_ms, keyword_count, topk, version) ==
    /\ Appends < MaxAppends
    /\ LET s == EvalScores(impl, df_results)
           rec == EvalRecord(impl, run_id, query, df_results, latency_ms,
                             keyword_count, topk, version)
       IN IF s.status = "raised"
          THEN /\ call' = [op |-> "log_eval", impl |-> impl, df |-> df_results,
                           status |-> "raised"]
               /\ UNCHANGED EVAL_METRICS
          ELSE /\ EVAL_METRICS' = InsertRow(EVAL_METRICS, rec)
               /\ call' = [op |-> "log_eval", impl |-> impl, df |-> df_results,
                           status |-> "returned", record |-> rec]
    /\ UNCHANGED <<fsVars, storeVars, pc, loc, ret, lastCall, hist, runs,
                   drops, faults, now, appVars, wi, search, FEATURE_STORE>>

\* the values of the INSERT of feature_store.py:65-76
FeatureRecord(run_id, query, keywords, topk, version) ==
    [FEATURE_ID |-> <<run_id, now>>, RUN_ID |-> run_id, VERSION |-> version,
     QUERY_RAW |-> query, KEYWORDS |-> keywords, NUM_KEYWORDS |-> Len(keywords),
     TOPK |-> topk]

\* feature_store.py:62-79
save_features(run_id, query, keywords, topk, version) ==
    /\ Appends < MaxAppends
    /\ LET rec == FeatureRecord(run_id, query, keywords, topk, version)
       IN /\ FEATURE_STORE' = InsertRow(FEATURE_STORE, rec)
          /\ call' = [op |-> "save_features", status |-> "returned",
                      record |-> rec]
    /\ UNCHANGED <<fsVars, storeVars, pc, loc, ret, lastCall, hist, runs,
                   drops, faults, now, appVars, wi, search, EVAL_METRICS>>

\* the recent-history reads and the modules that define them
HistoryReads ==
    {<<"evaluator", "load_metrics_history">>,
     <<"modeling.evaluator", "load_metrics_history">>,
     <<"feature_store", "load_feature_history">>,
     <<"scheduler", "load_ingest_log">>}

\* the limits the dashboard passes (app.py:311, 324, 442) and values at and
\* outside the ends of the safe range
Limits == {-5, 0, 1, 50, 200, 1000, 1001, 5000}

\* the limit of the statement: modeling/evaluator.py:135 clamps it, the
\* other three put the argument into LIMIT {limit} as it is
SentLimit(read, limit) ==
    IF read = <<"modeling.evaluator", "load_metrics_history">>
    THEN LET capped == IF limit < 1000 THEN limit ELSE 1000
         IN IF capped > 1 THEN capped ELSE 1
    ELSE limit

\* the number of rows a read can return; the store rejects a negative LIMIT
\* or takes it for no limit
HistoryOutcomes(read, limit) ==
    LET sent == SentLimit(read, limit)
        n == AllRows(IF read[2] = "load_metrics_history" THEN EVAL_METRICS
                     ELSE IF read[2] = "load_feature_history" THEN FEATURE_STORE
                     ELSE INGEST_LOG)
    IN IF sent >= 0
       THEN {[status |-> "returned", rows |-> IF sent < n THEN sent ELSE n]}
       ELSE {[status |-> "raised", rows |-> 0],
             [status |-> "returned", rows |-> n]}

history_read(read, limit) ==
    /\ \E o \in HistoryOutcomes(read, limit) :
         call' = [op |-> "history", read |-> read, limit |-> limit,
                  sent |-> SentLimit(read, limit), status |-> o.status,
                  rows |-> o.rows]
    \* load_ingest_log calls ensure_log_table first (scheduler.py:172)
    /\ logTable' = IF read[1] = "scheduler" THEN TRUE ELSE logTable
    /\ UNCHANGED <<fsVars, INGEST_LOG, DOC_CHUNKS_FEATURED, pc, loc, ret,
                   lastCall, hist, runs, drops, faults, now, appVars, wi, search,
                   telemetryVars>>

HistoryRead == \E read \in HistoryReads, limit \in Limits : history_read(read, limit)

(***************************************************************************)
(* The search handler, app.py:236-286, run by each session on a click:     *)
(* retrieval through the cache, then save_features, then log_eval.  Any    *)
(* exception goes to the handler of line 283, which shows the error and    *)
(* no result.  The answer generation of lines 246-249 is switched off.     *)
(***************************************************************************)
APP_VERSION == "v1"

Clicks == CountRows([s \in Sessions |-> search[s].clicks], Sessions)

\* lines 237-243; no time passes within the step, so retrieval_ms is 0
SearchClick(s) ==
    /\ search[s].pc = "idle"
    /\ Clicks < MaxSearches
    /\ \E q \in Queries :
         /\ cached_retrieval(q, WhatIfTopK)
         /\ search' = [search EXCEPT ![s] =
                         [pc |-> "features", run_id |-> <<"search", now>>,
                          q |-> q, df |-> lastGet'.value.df,
                          terms |-> lastGet'.value.terms,
                          retrieval_ms |-> (now - now) * 1000,
                          status |-> "running", clicks |-> @.clicks + 1]]
    /\ UNCHANGED <<call, wi, telemetryVars>>

\* the failure is swallowed: an empty result is shown as a success
SearchClickFailSilent(s) ==
    /\ search[s].pc = "idle"
    /\ Clicks < MaxSearches
    /\ \E q \in Queries :
         /\ cached_retrieval_fail(q, WhatIfTopK)
         /\ search' = [search EXCEPT ![s] =
                         [pc |-> "idle", run_id |-> <<"search", now>>,
                          q |-> q, df |-> NoFrame, terms |-> <<>>,
                          retrieval_ms |-> 0, status |-> "shown",
                          clicks |-> @.clicks + 1]]
    /\ UNCHANGED <<call, wi, telemetryVars>>

\* line 242 raises: lines 283-286
SearchClickFail(s) ==
    /\ search[s].pc = "idle"
    /\ Clicks < MaxSearches
    /\ \E q \in Queries :
         /\ cached_retrieval_fail(q, WhatIfTopK)
         /\ search' = [search EXCEPT ![s] =
                         [pc |-> "idle", run_id |-> <<"search", now>>,
                          q |-> q, df |-> NoFrame, terms |-> <<>>,
                          retrieval_ms |-> 0, status |-> "error",
                          clicks |-> @.clicks + 1]]
    /\ UNCHANGED <<call, wi, telemetryVars>>

\* line 258
SearchSaveFeatures(s) ==
    /\ search[s].pc = "features"
    /\ FEATURE_STORE' = InsertRow(FEATURE_STORE,
          FeatureRecord(search[s].run_id, search[s].q, search[s].terms,
                        WhatIfTopK, APP_VERSION))
    /\ search' = [search EXCEPT ![s].pc = "eval"]
    /\ UNCHANGED <<fsVars, storeVars, pc, loc, ret, lastCall, hist, runs,
                   drops, faults, now, appVars, call, wi, EVAL_METRICS>>

\* line 259, with either evaluator module on the import path
SearchLogEval(s) ==
    /\ search[s].pc = "eval"
    /\ \E impl \in Impls :
         EVAL_METRICS' = InsertRow(EVAL_METRICS,
             EvalRecord(impl, search[s].run_id, search[s].q, search[s].df,
                        search[s].retrieval_ms, Len(search[s].terms),
                        WhatIfTopK, APP_VERSION))
    /\ search' = [search EXCEPT ![s].pc = "idle", ![s].status = "shown"]
    /\ UNCHANGED <<fsVars, storeVars, pc, loc, ret, lastCall, hist, runs,
                   drops, faults, now, appVars, call, wi, FEATURE_STORE>>

\* line 258 or 259 raises: lines 283-286, nothing more is appended
SearchTelemetryFail(s) ==
    /\ search[s].pc \in {"features", "eval"}
    /\ Fault
    /\ search' = [search EXCEPT ![s].pc = "idle", ![s].status = "error",
                                ![s].df = NoFrame]
    /\ UNCHANGED <<fsVars, storeVars, pc, loc, ret, lastCall, hist, runs,
                   drops, now, appVars, call, wi, telemetryVars>>

(***************************************************************************)
(* Spec: the standalone scheduler (lines 190-197) alone, with store and    *)
(* filesystem failures.                                                    *)
(***************************************************************************)
Next ==
    \/ DropFile
    \/ IngestStep("sched")
    \/ IngestFault("sched")

Spec == Init /\ [][Next]_vars

(***************************************************************************)
(* SpecSeq: the scheduler alone and a store and filesystem that never fail. *)
(***************************************************************************)
NextSeq ==
    \/ DropFile
    \/ IngestStep("sched")

SpecSeq == Init /\ [][NextSeq]_vars

(***************************************************************************)
(* SpecConc: the scheduler and the app's run_once (app.py:431) side by     *)
(* side, no failures.                                                      *)
(***************************************************************************)
NextConc ==
    \/ DropFile
    \/ \E p \in Procs : IngestStep(p)

SpecConc == Init /\ [][NextConc]_vars

(***************************************************************************)
(* SpecCache: searches through cached_retrieval while time passes and the  *)
(* scheduler ingests one file; the store may fail.                         *)
(***************************************************************************)
\* one valid file waits in the inbox and no other comes
InitCache ==
    /\ inbox = [f \in Names |-> IF f = "f1.csv" THEN "A" ELSE NoFile]
    /\ doneDir = [f \in Names |-> NoFile]
    /\ logTable = FALSE
    /\ INGEST_LOG = EmptyTable
    /\ DOC_CHUNKS_FEATURED = EmptyTable
    /\ pc = [p \in Procs |-> "idle"]
    /\ loc = [p \in Procs |-> NoLocals]
    /\ ret = [p \in Procs |-> [kind |-> "none", files |-> <<>>, results |-> <<>>]]
    /\ lastCall = [p \in Procs |-> NoCall]
    /\ hist = [succeeded |-> {}, stopped |-> {}]
    /\ runs = [p \in Procs |-> 0]
    /\ drops = MaxDrops
    /\ faults = 0
    /\ now = 0
    /\ cache = [key \in CacheKeys |-> NoEntry]
    /\ lastGet = NoGet
    /\ call = NoFn
    /\ wi = NoWhatIf
    /\ search = [s \in Sessions |-> NoSearch]
    /\ EVAL_METRICS = EmptyTable
    /\ FEATURE_STORE = EmptyTable

NextCache ==
    \/ Tick
    \/ Retrieve
    \/ RetrieveFail
    \/ RunOnce("sched")
    \/ FileHash("sched")
    \/ EnsureLogTable("sched")
    \/ AlreadyIngested("sched")
    \/ ReadCsv("sched")
    \/ InsertBatch("sched")
    \/ WriteLogSuccess("sched")
    \/ MoveToDone("sched")

SpecCache == InitCache /\ [][NextCache]_vars

\* nothing is running, nothing is cached, the store holds the given rows
InitOver(table) ==
    /\ inbox = [f \in Names |-> NoFile]
    /\ doneDir = [f \in Names |-> NoFile]
    /\ logTable = FALSE
    /\ INGEST_LOG = EmptyTable
    /\ DOC_CHUNKS_FEATURED = table
    /\ pc = [p \in Procs |-> "idle"]
    /\ loc = [p \in Procs |-> NoLocals]
    /\ ret = [p \in Procs |-> [kind |-> "none", files |-> <<>>, results |-> <<>>]]
    /\ lastCall = [p \in Procs |-> NoCall]
    /\ hist = [succeeded |-> {}, stopped |-> {}]
    /\ runs = [p \in Procs |-> 0]
    /\ drops = 0
    /\ faults = 0
    /\ now = 0
    /\ cache = [key \in CacheKeys |-> NoEntry]
    /\ lastGet = NoGet
    /\ call = NoFn
    /\ wi = NoWhatIf
    /\ search = [s \in Sessions |-> NoSearch]
    /\ EVAL_METRICS = EmptyTable
    /\ FEATURE_STORE = EmptyTable

(***************************************************************************)
(* SpecKeywords: extract_keywords called with any query made of up to      *)
(* three words and any max_terms.                                          *)
(***************************************************************************)
WordParking == <<"P","a","r","k","i","n","g">>
WordPARKING == <<"P","A","R","K","I","N","G">>
WordFee == <<"f","e","e">>
WordThe == <<"T","h","e">>
WordIs == <<"i","s">>
WordRoom == <<"R","o","o","m","1","0","1">>
WordA1 == <<"a","1">>

Words == {WordParking, WordPARKING, WordFee, WordThe, WordIs, WordRoom, WordA1}

\* the words separated by ", " and ended by "?"
RECURSIVE Sentence(_)
Sentence(ws) ==
    IF ws = <<>> THEN <<"?">>
    ELSE IF Len(ws) = 1 THEN Head(ws) \o <<"?">>
    ELSE Head(ws) \o <<",", " ">> \o Sentence(Tail(ws))

SentencesOver(W) ==
    {Sentence(ws) : ws \in {<<>>} \cup [1..1 -> W] \cup [1..2 -> W] \cup [1..3 -> W]}

\* one call per behaviour: the function reads no state
ExtractCall ==
    /\ call = NoFn
    /\ \E query \in SentencesOver(Words) \cup FnQueries,
          max_terms \in {-2, -1, 0, 1, 2, DefaultMaxTerms} :
         call' = [op |-> "extract_keywords", query |-> query,
                  max_terms |-> max_terms,
                  result |-> extract_keywords(query, max_terms)]
    /\ UNCHANGED <<fsVars, storeVars, pc, loc, ret, lastCall, hist, runs,
                   drops, faults, now, appVars, wi, search, telemetryVars>>

SpecKeywords == InitOver(EmptyTable) /\ [][ExtractCall]_vars

(***************************************************************************)
(* SpecTelemetry: the search handler's two appends (app.py:258-259), with  *)
(* either evaluator module and any result frame, and the history reads.    *)
(***************************************************************************)
FullCorpus == [r \in SampleRows |-> 1]
UnscoredFrame == <<Chunk("1", TextAll)>>

EvalFrames ==
    {NoResult, NoFrame, UnscoredFrame}
        \cup {v.df : v \in RunRetrieval(QueryPermit, 1, FullCorpus)}
        \cup {v.df : v \in RunRetrieval(QueryPermit, 3, FullCorpus)}

LogEval ==
    \E impl \in Impls, df \in EvalFrames, ms \in Latencies :
        log_eval(impl, RunId, QueryPermit, df, ms,
                 Len(Keywords(QueryPermit)), WhatIfTopK, APP_VERSION)

\* the store round trip of log_eval raises: nothing is appended
LogEvalFail ==
    /\ Appends < MaxAppends
    /\ \E impl \in Impls, df_results \in EvalFrames :
         call' = [op |-> "log_eval", impl |-> impl, df |-> df_results,
                  status |-> "raised"]
    /\ UNCHANGED <<fsVars, storeVars, pc, loc, ret, lastCall, hist, runs,
                   drops, faults, now, appVars, wi, search, telemetryVars>>

SaveFeatures ==
    \E q \in Queries :
        save_features(RunId, q, Keywords(q), WhatIfTopK, APP_VERSION)

NextTelemetry ==
    \/ LogEval
    \/ LogEvalFail
    \/ SaveFeatures
    \/ HistoryRead

SpecTelemetry == InitOver(EmptyTable) /\ [][NextTelemetry]_vars

(***************************************************************************)
(* SpecSearch: the sessions of the app search side by side over a corpus   *)
(* of sample rows while time passes; the store may fail.                   *)
(***************************************************************************)
NextSearch ==
    \/ Tick
    \/ \E s \in Sessions :
          \/ SearchClick(s)
          \/ SearchClickFail(s)
          \/ SearchSaveFeatures(s)
          \/ SearchLogEval(s)
          \/ SearchTelemetryFail(s)

SpecSearch == InitOver(FullCorpus) /\ [][NextSearch]_vars

(***************************************************************************)
(* SpecLogs: every operation on the three logs: the scheduler ingests a   *)
(* valid file and one that lacks a column while features and evaluations   *)
(* are appended and the histories are read once its runs are over.         *)
(***************************************************************************)
InitLogs ==
    /\ inbox = [f \in Names |-> IF f = "f1.csv" THEN "A"
                                ELSE IF f = "f2.csv" THEN "X" ELSE NoFile]
    /\ doneDir = [f \in Names |-> NoFile]
    /\ logTable = FALSE
    /\ INGEST_LOG = EmptyTable
    /\ DOC_CHUNKS_FEATURED = EmptyTable
    /\ pc = [p \in Procs |-> "idle"]
    /\ loc = [p \in Procs |-> NoLocals]
    /\ ret = [p \in Procs |-> [kind |-> "none", files |-> <<>>, results |-> <<>>]]
    /\ lastCall = [p \in Procs |-> NoCall]
    /\ hist = [succeeded |-> {}, stopped |-> {}]
    /\ runs = [p \in Procs |-> 0]
    /\ drops = MaxDrops
    /\ faults = 0
    /\ now = 0
    /\ cache = [key \in CacheKeys |-> NoEntry]
    /\ lastGet = NoGet
    /\ call = NoFn
    /\ wi = NoWhatIf
    /\ search = [s \in Sessions |-> NoSearch]
    /\ EVAL_METRICS = EmptyTable
    /\ FEATURE_STORE = EmptyTable

\* the dashboard and the searches, used after the scheduler's runs
TelemetryAfterRuns ==
    /\ pc["sched"] = "idle"
    /\ runs["sched"] = RunLimit("sched")
    /\ (LogEval \/ SaveFeatures \/ HistoryRead)

NextLogs ==
    \/ IngestStep("sched")
    \/ TelemetryAfterRuns

SpecLogs == InitLogs /\ [][NextLogs]_vars

(***************************************************************************)
(* SpecTwoFiles: two processes, each in one ingest_csv call on a file of   *)
(* its own, the two files differing in name and content; the store and the *)
(* filesystem work.                                                        *)
(***************************************************************************)
InitTwoFiles ==
    \E f \in [Procs -> {"f1.csv", "f2.csv"}], c \in [Procs -> {"A", "B"}] :
        /\ f["sched"] # f["app"]
        /\ c["sched"] # c["app"]
        /\ inbox = [n \in Names |->
                      IF n = f["sched"] THEN c["sched"]
                      ELSE IF n = f["app"] THEN c["app"] ELSE NoFile]
        /\ doneDir = [n \in Names |-> NoFile]
        /\ logTable = FALSE
        /\ INGEST_LOG = EmptyTable
        /\ DOC_CHUNKS_FEATURED = EmptyTable
        /\ pc = [p \in Procs |-> "hash"]
        /\ loc = [p \in Procs |-> [NoLocals EXCEPT !.files = <<f[p]>>, !.i = 1]]
        /\ ret = [p \in Procs |-> [kind |-> "none", files |-> <<>>, results |-> <<>>]]
        /\ lastCall = [p \in Procs |-> NoCall]
        /\ hist = [succeeded |-> {}, stopped |-> {}]
        /\ runs = [p \in Procs |-> RunLimit(p)]
        /\ drops = MaxDrops
        /\ faults = 0
        /\ now = 0
        /\ cache = [key \in CacheKeys |-> NoEntry]
        /\ lastGet = NoGet
        /\ call = NoFn
        /\ wi = NoWhatIf
        /\ search = [s \in Sessions |-> NoSearch]
        /\ EVAL_METRICS = EmptyTable
        /\ FEATURE_STORE = EmptyTable

NextTwoFiles ==
    \E p \in Procs :
        \/ FileHash(p)
        \/ EnsureLogTable(p)
        \/ AlreadyIngested(p)
        \/ ReadCsv(p)
        \/ InsertBatch(p)
        \/ WriteLogSuccess(p)
        \/ MoveToDone(p)

SpecTwoFiles == InitTwoFiles /\ [][NextTwoFiles]_vars

(***************************************************************************)
(* SpecWhatIf: one run_whatif call over any list of scenarios and any      *)
(* corpus of sample rows; a store round trip may fail.                     *)
(***************************************************************************)
InitWhatIf == \E table \in Corpora : InitOver(table)

NextWhatIf ==
    \/ WhatIfStart
    \/ WhatIfStep
    \/ WhatIfStepFail
    \/ WhatIfReturn

SpecWhatIf == InitWhatIf /\ [][NextWhatIf]_vars

(***************************************************************************)
(* SpecRetrieval: _run_retrieval called with any query and any topk over   *)
(* any corpus of sample rows; the store answers every statement.           *)
(***************************************************************************)
InitRetrieval == \E table \in Corpora : InitOver(table)

NextRetrieval == RunRetrievalCall

SpecRetrieval == InitRetrieval /\ [][NextRetrieval]_vars

(***************************************************************************)
(* chunk_text, 01_extract_chunk.py:15-29: the text is normalised (NUL to a *)
(* space, every run of whitespace to one space, then trimmed) and cut into *)
(* chunks of chunk_size characters, each starting overlap characters       *)
(* before the end of the one before.  One action per pass of the loop; the *)
(* call's locals are kept in call, and spans records the (start, end) of   *)
(* every chunk appended.                                                   *)
(***************************************************************************)
\* characters of a text handed to chunk_text
MaxLen == 4
\* passes of the while loop the model follows
MaxPasses == MaxLen + 2

NUL == "NUL"

\* the texts: letters, spaces and NUL in any order, shorter ones with the
\* other kinds of whitespace, and None
TextsOver(chars, m) == UNION {[1..k -> chars] : k \in 0..m}
ChunkTexts ==
    TextsOver({"a", "b", " ", NUL}, MaxLen)
        \cup TextsOver({"a", "\n", "\t"}, MaxLen - 1) \cup {None}
ChunkSizes == -1..(MaxLen + 1)
Overlaps == -1..(MaxLen - 1)

\* lines 16-17: (text or "").replace("\x00", " "), re.sub(r"\s+", " ", ...)
\* and .strip()
normalize_text(text) ==
    LET replaced == [i \in DOMAIN OrEmpty(text) |->
                        IF OrEmpty(text)[i] = NUL THEN " " ELSE OrEmpty(text)[i]]
        RECURSIVE sub(_, _)
        sub(s, out) ==
            IF s = <<>> THEN out
            ELSE IF ~IsSpace(Head(s)) THEN sub(Tail(s), Append(out, Head(s)))
            ELSE IF out # <<>> /\ out[Len(out)] = " " THEN sub(Tail(s), out)
            ELSE sub(Tail(s), Append(out, " "))
    IN strip(sub(replaced, <<>>))

\* lines 15-22: the text is normalised; no text, no chunk
ChunkTextCall ==
    /\ call = NoFn
    /\ \E text \in ChunkTexts, chunk_size \in ChunkSizes, overlap \in Overlaps :
         LET t == normalize_text(text)
         IN call' = [op |-> "chunk_text", raw |-> text, text |-> t,
                     chunk_size |-> chunk_size, overlap |-> overlap,
                     n |-> Len(t), start |-> 0, chunks |-> <<>>,
                     spans |-> <<>>,
                     pc |-> IF t = <<>> THEN "done" ELSE "loop"]
    /\ UNCHANGED <<fsVars, storeVars, pc, loc, ret, lastCall, hist, runs,
                   drops, faults, now, appVars, wi, search, telemetryVars>>

\* the next chunk starts where this one ends
ChunkTextPassNoOverlap ==
    /\ call.op = "chunk_text" /\ call.pc = "loop"
    /\ call.start < call.n
    /\ Len(call.chunks) < MaxPasses
    /\ LET end == IF call.n < call.start + call.chunk_size
                  THEN call.n ELSE call.start + call.chunk_size
           stop == IF end < 0
                   THEN IF end + call.n > 0 THEN end + call.n ELSE 0
                   ELSE end
           chunks == Append(call.chunks, SubSeq(call.text, call.start + 1, stop))
           spans == Append(call.spans, <<call.start, end>>)
       IN call' = IF end = call.n
                  THEN [call EXCEPT !.chunks = chunks, !.spans = spans,
                                    !.pc = "done"]
                  ELSE [call EXCEPT !.chunks = chunks, !.spans = spans,
                                    !.start = IF end > 0 THEN end ELSE 0]
    /\ UNCHANGED <<fsVars, storeVars, pc, loc, ret, lastCall, hist, runs,
                   drops, faults, now, appVars, wi, search, telemetryVars>>

\* lines 23-28, one pass: end = min(n, start + chunk_size), text[start:end]
\* is appended (a negative end counts from the end of the text), the loop
\* is left if end == n, else start = max(0, end - overlap)
ChunkTextPass ==
    /\ call.op = "chunk_text" /\ call.pc = "loop"
    /\ call.start < call.n
    /\ Len(call.chunks) < MaxPasses
    /\ LET end == IF call.n < call.start + call.chunk_size
                  THEN call.n ELSE call.start + call.chunk_size
           stop == IF end < 0
                   THEN IF end + call.n > 0 THEN end + call.n ELSE 0
                   ELSE end
           chunks == Append(call.chunks, SubSeq(call.text, call.start + 1, stop))
           spans == Append(call.spans, <<call.start, end>>)
       IN call' = IF end = call.n
                  THEN [call EXCEPT !.chunks = chunks, !.spans = spans,
                                    !.pc = "done"]
                  ELSE [call EXCEPT !.chunks = chunks, !.spans = spans,
                                    !.start = IF end - call.overlap > 0
                                              THEN end - call.overlap ELSE 0]
    /\ UNCHANGED <<fsVars, storeVars, pc, loc, ret, lastCall, hist, runs,
                   drops, faults, now, appVars, wi, search, telemetryVars>>

(***************************************************************************)
(* SpecChunk: one chunk_text call on any text of up to MaxLen characters   *)
(* with any chunk_size and overlap; a pass that can run does run.          *)
(***************************************************************************)
SpecChunk ==
    /\ InitOver(EmptyTable)
    /\ [][ChunkTextCall \/ ChunkTextPass]_vars
    /\ WF_vars(ChunkTextPass)

(***************************************************************************)
(* What the claims speak of.                                               *)
(***************************************************************************)
\* the document a content's rows belong to (first cell of its first row)
DocOf(c) == FileData(c).rows[1][1]

\* the rows of DOC_CHUNKS_FEATURED that come from content c
RowsFrom(c) == {r \in DOMAIN DOC_CHUNKS_FEATURED : r.DOC_NAME = DocOf(c)}

\* the rows of c with a text, each carrying the length of its text
FrameOf(c) == CleanFrame(NormalizeColumns(FileData(c).header), FileData(c).rows)

CommittedOnce(c) ==
    /\ RowsFrom(c) = Range(FrameOf(c))
    /\ \A r \in RowsFrom(c) : DOC_CHUNKS_FEATURED[r] = 1

CommittedAtMostOnce(c) == \A r \in RowsFrom(c) : DOC_CHUNKS_FEATURED[r] <= 1

\* the column a lacking content lacks
Lacked(c) == {CHUNK_TEXT}

ReturnedStatuses == {"success", "fail", "skipped"}

(***************************************************************************)
(* C1.  Ingesting the same bytes twice in sequence, under any file name,   *)
(* with a store that works: the content has exactly one success record,   *)
(* its rows are in DOC_CHUNKS_FEATURED exactly once, and a call made after *)
(* a call on the same bytes returned success returns skipped.              *)
(***************************************************************************)
C1_IdempotentIngest ==
    /\ \A c \in Contents :
         /\ SuccessCount(c) <= 1
         /\ c \in hist.succeeded => SuccessCount(c) = 1 /\ CommittedOnce(c)
    /\ \A p \in Procs : lastCall[p].prior => lastCall[p].status = "skipped"

\* a second call on the same bytes under another name has ended
C1_Witness ==
    /\ lastCall["sched"].prior
    /\ lastCall["sched"].status = "skipped"
    /\ \E g \in Names : /\ g # lastCall["sched"].file
                        /\ doneDir[g] = lastCall["sched"].content

(***************************************************************************)
(* C2.  In every reachable state, two processes ingesting at once          *)
(* included, INGEST_LOG holds at most one success record per FILE_HASH.    *)
(***************************************************************************)
C2_AtMostOneSuccessPerHash == \A c \in Contents : SuccessCount(c) <= 1

(***************************************************************************)
(* C3.  Whatever fails during the attempts (batch insert, log write, file  *)
(* move), the rows of a file content are committed at most once.           *)
(***************************************************************************)
C3_RowsCommittedAtMostOnce ==
    \A c \in Contents \ LackingContents : CommittedAtMostOnce(c)

(***************************************************************************)
(* C4.  Once a call has stopped after its batch committed and before its   *)
(* move completed, every later call on that file returns skipped and       *)
(* commits nothing.                                                        *)
(***************************************************************************)
C4_StopAfterCommitThenSkipped ==
    \A p \in Procs :
        lastCall[p].after =>
            lastCall[p].status = "skipped" /\ ~lastCall[p].inserted

(***************************************************************************)
(* C5.  A call whose batch insert raised returns fail, has appended a fail *)
(* record carrying the error, has written no success record, and its file  *)
(* is still in the inbox.                                                  *)
(***************************************************************************)
C5_InsertErrorReturnsFail ==
    \A p \in Procs :
        lastCall[p].e.kind = "InsertError" =>
            /\ lastCall[p].status = "fail"
            /\ \E r \in DOMAIN INGEST_LOG :
                 /\ r.STATUS = "fail"
                 /\ r.FILE_NAME = lastCall[p].file
                 /\ r.ERROR_MSG = lastCall[p].e
            /\ inbox[lastCall[p].file] = lastCall[p].content

(***************************************************************************)
(* C6.  With a store that works, a call on a file that lacks a required    *)
(* column, the names compared after trimming and uppercasing, returns fail *)
(* with a message naming the missing columns, in every run_once; it        *)
(* commits no row; the file stays in the inbox and is never archived; and  *)
(* only such a file is refused for missing columns.                        *)
(***************************************************************************)
C6_MissingColumnFails ==
    /\ \A p \in Procs :
         /\ lastCall[p].content \in LackingContents =>
              /\ lastCall[p].status = "fail"
              /\ lastCall[p].e = [kind |-> "Missing columns",
                                  cols |-> Lacked(lastCall[p].content)]
              /\ ~lastCall[p].inserted
              /\ inbox[lastCall[p].file] = lastCall[p].content
              /\ \E r \in DOMAIN INGEST_LOG :
                   /\ r.STATUS = "fail"
                   /\ r.FILE_NAME = lastCall[p].file
                   /\ r.ERROR_MSG = lastCall[p].e
         /\ lastCall[p].e.kind = "Missing columns" =>
              lastCall[p].content \in LackingContents
    /\ \A c \in LackingContents : RowsFrom(c) = {} /\ SuccessCount(c) = 0
    /\ \A f \in Names : doneDir[f] \notin LackingContents

\* the file has been refused in two run_once calls
C6_Witness ==
    /\ lastCall["sched"].content \in LackingContents
    /\ lastCall["sched"].status = "fail"
    /\ runs["sched"] = 2
    /\ \E r \in DOMAIN INGEST_LOG :
         r.FILE_HASH \in LackingContents /\ INGEST_LOG[r] = 2

(***************************************************************************)
(* C7.  A call that returns skipped changes nothing: its steps are the     *)
(* hash, the table check and the dedup query, it returns from the dedup    *)
(* query, and none of these steps changes the inbox, the done directory,   *)
(* DOC_CHUNKS_FEATURED or INGEST_LOG.                                      *)
(***************************************************************************)
C7_SkipChangesNothing ==
    [][\A p \in Procs :
         /\ (pc[p] \in {"hash", "ensure", "check"}
               /\ (pc'[p] # pc[p] \/ loc'[p] # loc[p])) =>
              UNCHANGED <<inbox, doneDir, DOC_CHUNKS_FEATURED, INGEST_LOG>>
         /\ (lastCall'[p] # lastCall[p] /\ lastCall'[p].status = "skipped") =>
              /\ pc[p] = "check"
              /\ ~lastCall'[p].inserted
              /\ inbox'[lastCall'[p].file] = lastCall'[p].content]_vars

\* a call has returned skipped and its file is in the inbox
C7_Witness ==
    /\ lastCall["sched"].status = "skipped"
    /\ inbox[lastCall["sched"].file] = lastCall["sched"].content

(***************************************************************************)
(* C8.  Whatever the store does, run_once ends by returning one outcome    *)
(* per candidate file, in listing order, each with a status among success, *)
(* fail, skipped.                                                          *)
(***************************************************************************)
C8_OneOutcomePerCandidate ==
    \A p \in Procs :
        ret[p].kind # "none" =>
            /\ ret[p].kind = "returned"
            /\ Len(ret[p].results) = Len(ret[p].files)
            /\ \A i \in DOMAIN ret[p].results :
                 /\ ret[p].results[i].file = ret[p].files[i]
                 /\ ret[p].results[i].status \in ReturnedStatuses

(***************************************************************************)
(* C9.  The polling loop never ends by itself, whatever failed during a    *)
(* run_once.                                                               *)
(***************************************************************************)
C9_PollingLoopNeverEnds == pc["sched"] # "dead"


(***************************************************************************)
(* C10.  As the claim states it: a cached_retrieval call made within the   *)
(* TTL of the creation of its key's entry returns the entry's value and    *)
(* makes no row-store query; a call that finds the entry expired makes one *)
(* row-store query and replaces the entry.                                 *)
(***************************************************************************)
LastGetHit ==
    /\ lastGet.before.present
    /\ lastGet.at - lastGet.before.created < TTL

LastGetExpired ==
    /\ lastGet.before.present
    /\ lastGet.at - lastGet.before.created >= TTL

Replaced ==
    cache[lastGet.key] =
        [present |-> TRUE, created |-> lastGet.at, value |-> lastGet.value]

C10_ExpiredCallQueriesOnceAndReplaces ==
    lastGet.status # "none" =>
        /\ LastGetHit => /\ lastGet.status = "returned"
                         /\ lastGet.value = lastGet.before.value
                         /\ lastGet.queried = 0
        /\ LastGetExpired => /\ lastGet.queried = 1
                             /\ lastGet.status = "returned"
                             /\ Replaced

(***************************************************************************)
(* C10, amended.  A cached_retrieval call made within the TTL of the       *)
(* creation of its key's entry returns the entry's value, makes no         *)
(* row-store query and leaves the entry as it is.  A call that finds no    *)
(* entry or an expired one runs _run_retrieval: it makes one row-store     *)
(* query if the query yields a search term and none otherwise; when it     *)
(* returns, the entry becomes the returned value stamped with the time of  *)
(* the call; when the store query raises, the entry is left as it was.     *)
(***************************************************************************)
C10_HitWithinTTLElseRecompute ==
    lastGet.status # "none" =>
        /\ LastGetHit => /\ lastGet.status = "returned"
                         /\ lastGet.value = lastGet.before.value
                         /\ lastGet.queried = 0
                         /\ cache[lastGet.key] = lastGet.before
        /\ ~LastGetHit =>
              /\ lastGet.queried =
                    (IF extract_keywords(lastGet.key[1], DefaultMaxTerms) # <<>>
                     THEN 1 ELSE 0)
              /\ lastGet.status = "returned" =>
                    /\ Replaced
                    /\ lastGet.value.terms =
                          extract_keywords(lastGet.key[1], DefaultMaxTerms)
              /\ lastGet.status = "raised" =>
                    /\ lastGet.queried = 1
                    /\ cache[lastGet.key] = lastGet.before

\* a call found its entry expired after the corpus had grown, queried the
\* store and replaced the entry with the new result
C10_Witness ==
    /\ lastGet.status = "returned"
    /\ LastGetExpired
    /\ lastGet.queried = 1
    /\ lastGet.before.value.df = <<>>
    /\ lastGet.value.df # <<>>
    /\ Replaced

(***************************************************************************)
(* C11.  A _run_retrieval call with a non-positive topk is rejected with   *)
(* InvalidArgument and sends no statement to the store; no statement sent  *)
(* to the store carries a limit of 0 or less.                              *)
(***************************************************************************)
C11_NonPositiveTopkRejected ==
    call.op = "_run_retrieval" =>
        /\ call.topk <= 0 =>
              call.status = "InvalidArgument" /\ call.sent = <<>>
        /\ \A i \in DOMAIN call.sent : call.sent[i] > 0

(***************************************************************************)
(* C12.  For an empty, missing or whitespace-only query and for a query of *)
(* stopwords and short tokens only, whatever topk and the corpus,          *)
(* _run_retrieval returns an empty result and an empty term list, raises   *)
(* nothing and sends nothing to the store.                                 *)
(***************************************************************************)
DegenerateQueries == {<<>>, None, QueryBlank, QueryHow}

C12_NoTermNoStoreAccess ==
    (call.op = "_run_retrieval" /\ call.query \in DegenerateQueries) =>
        /\ call.status = "returned"
        /\ call.value.df = <<>>
        /\ call.value.terms = <<>>
        /\ call.sent = <<>>

\* a query of stopwords has been answered over a corpus that holds rows
C12_Witness ==
    /\ call.op = "_run_retrieval"
    /\ call.query = QueryHow
    /\ call.status = "returned"
    /\ DOMAIN DOC_CHUNKS_FEATURED = SampleRows

(***************************************************************************)
(* C13.  For a query with at least one term and a positive topk, over any  *)
(* corpus, _run_retrieval returns the first topk rows of the reference     *)
(* list: the chunks whose text holds at least one term as a                *)
(* case-insensitive substring, each scored with the number of terms it     *)
(* holds, sorted by score descending and then text_length descending.  So  *)
(* it returns min(topk, number of such chunks) rows, every score is        *)
(* between 1 and the number of terms, and no chunk left out sorts strictly *)
(* before a returned one.                                                  *)
(***************************************************************************)
HasTerm(text, term) ==
    LET low == lower(text)
    IN \E i \in 1..Len(text), j \in 1..Len(text) : SubSeq(low, i, j) = term

TermsHeld(text, terms) ==
    Cardinality({i \in DOMAIN terms : HasTerm(text, terms[i])})

Unscored(r) ==
    [DOC_NAME |-> r.DOC_NAME, PAGE_NUM |-> r.PAGE_NUM, CHUNK_ID |-> r.CHUNK_ID,
     CHUNK_TEXT |-> r.CHUNK_TEXT, TEXT_LENGTH |-> r.TEXT_LENGTH]

Returned(df, row) == Cardinality({i \in DOMAIN df : Unscored(df[i]) = row})

StrictlyBefore(score, length, r) ==
    \/ score > r.SCORE
    \/ score = r.SCORE /\ length > r.TEXT_LENGTH

Smaller(a, b) == IF a < b THEN a ELSE b

IsReferencePrefix(df, terms, topk, table) ==
    LET held == {r \in DOMAIN table : TermsHeld(r.CHUNK_TEXT, terms) >= 1}
    IN /\ Len(df) = Smaller(topk, CountRows(table, held))
       /\ \A i \in DOMAIN df :
            /\ Unscored(df[i]) \in held
            /\ df[i].SCORE = TermsHeld(df[i].CHUNK_TEXT, terms)
            /\ df[i].SCORE >= 1 /\ df[i].SCORE <= Len(terms)
       /\ \A r \in held : Returned(df, r) <= table[r]
       /\ \A i, j \in DOMAIN df :
            i < j => ~StrictlyBefore(df[j].SCORE, df[j].TEXT_LENGTH, df[i])
       /\ \A r \in held, i \in DOMAIN df :
            Returned(df, r) < table[r] =>
                ~StrictlyBefore(TermsHeld(r.CHUNK_TEXT, terms), r.TEXT_LENGTH,
                                df[i])

C13_ReturnsFirstTopkOfReference ==
    (call.op = "_run_retrieval" /\ call.topk > 0
       /\ call.query \notin DegenerateQueries) =>
        /\ call.status = "returned"
        /\ call.value.terms # <<>>
        /\ call.sent = <<call.topk>>
        /\ IsReferencePrefix(call.value.df, call.value.terms, call.topk,
                             DOC_CHUNKS_FEATURED)

\* three chunks hold a term, two are returned, with different scores
C13_Witness ==
    /\ call.op = "_run_retrieval"
    /\ call.topk = 2
    /\ call.query = QueryPermit
    /\ DOMAIN DOC_CHUNKS_FEATURED = SampleRows
    /\ Len(call.value.df) = 2
    /\ call.value.df[1].SCORE > call.value.df[2].SCORE

(***************************************************************************)
(* C14.  As the claim states it: for "How much is a parking permit?" the   *)
(* terms are much, parking, permit, and with topk = 2 over a corpus of     *)
(* three rows, one holding the three words, one holding two of them and    *)
(* one holding none, the two rows returned have scores 3 and 2.            *)
(***************************************************************************)
Corpus14 == [r \in {Chunk("1", TextAll), Chunk("2", TextTwo),
                    Chunk("3", TextLibrary)} |-> 1]

TermMuch == <<"m","u","c","h">>
TermParking == <<"p","a","r","k","i","n","g">>
TermPermit == <<"p","e","r","m","i","t">>

IsCall14 ==
    /\ call.op = "_run_retrieval"
    /\ call.query = QueryPermit
    /\ call.topk = 2
    /\ DOC_CHUNKS_FEATURED = Corpus14

Scores(df) == [i \in DOMAIN df |-> df[i].SCORE]

C14_ThreeTermsScores3And2 ==
    IsCall14 =>
        /\ call.status = "returned"
        /\ call.value.terms = <<TermMuch, TermParking, TermPermit>>
        /\ Scores(call.value.df) = <<3, 2>>

(***************************************************************************)
(* C14, amended.  "much" is a stopword: the terms are parking, permit, and *)
(* over that corpus (one row holds both terms, one holds one, one holds    *)
(* none) with topk = 2 the two rows returned are the row with both terms   *)
(* and the row with one, with scores 2 and 1 in that order.                *)
(***************************************************************************)
C14_TwoTermsScores2And1 ==
    IsCall14 =>
        /\ call.status = "returned"
        /\ call.value.terms = <<TermParking, TermPermit>>
        /\ Scores(call.value.df) = <<2, 1>>
        /\ call.value.df[1].CHUNK_TEXT = TextAll
        /\ call.value.df[2].CHUNK_TEXT = TextTwo

C14_Witness == IsCall14 /\ Len(call.value.df) = 2

(***************************************************************************)
(* C15.  As the claim states it: for every query and every max_terms,      *)
(* extract_keywords returns at most max_terms entries, pairwise distinct,  *)
(* in the order of their first occurrence: the prefix of length max_terms  *)
(* of the de-duplicated list of accepted tokens.                           *)
(***************************************************************************)
Tokens(query) == FindAll(lower(OrEmpty(query)), <<>>, <<>>)

Accepted(query) ==
    {w \in Range(Tokens(query)) : w \notin STOPWORDS /\ Len(w) >= 3}

FirstPos(query, w) ==
    CHOOSE i \in DOMAIN Tokens(query) :
        /\ Tokens(query)[i] = w
        /\ \A j \in 1..(i - 1) : Tokens(query)[j] # w

\* result lists n accepted tokens, those that occur first, in that order
IsFirstOccurrences(result, query, n) ==
    /\ Len(result) = n
    /\ \A i \in DOMAIN result : result[i] \in Accepted(query)
    /\ \A i, j \in DOMAIN result :
         i < j => FirstPos(query, result[i]) < FirstPos(query, result[j])
    /\ \A w \in Accepted(query) \ Range(result), i \in DOMAIN result :
         FirstPos(query, result[i]) < FirstPos(query, w)

C15_AtMostMaxTermsDistinctInOrder ==
    call.op = "extract_keywords" =>
        /\ Len(call.result) <= call.max_terms
        /\ IsFirstOccurrences(call.result, call.query,
                              Smaller(call.max_terms,
                                      Cardinality(Accepted(call.query))))

(***************************************************************************)
(* C15, amended.  For every query and every max_terms >= 0 the claim       *)
(* holds as stated; for a negative max_terms the result is the             *)
(* de-duplicated list of accepted tokens, in first-occurrence order,       *)
(* without its last -max_terms entries (Python's slice).                   *)
(***************************************************************************)
C15_PrefixOfDistinctAccepted ==
    call.op = "extract_keywords" =>
        LET n == Cardinality(Accepted(call.query))
        IN IF call.max_terms >= 0
           THEN /\ Len(call.result) <= call.max_terms
                /\ IsFirstOccurrences(call.result, call.query,
                                      Smaller(call.max_terms, n))
           ELSE IsFirstOccurrences(call.result, call.query,
                                   IF n + call.max_terms > 0
                                   THEN n + call.max_terms ELSE 0)

\* a query that repeats a word in two cases was cut to two terms
C15_Witness ==
    /\ call.op = "extract_keywords"
    /\ call.query = Sentence(<<WordParking, WordPARKING, WordRoom>>)
    /\ call.max_terms = 2
    /\ Len(call.result) = 2

(***************************************************************************)
(* C16.  Every term returned by extract_keywords is made of lowercase      *)
(* ASCII letters and digits, has at least 3 characters and is no stopword; *)
(* a query made only of stopwords and shorter tokens yields no term.       *)
(***************************************************************************)
IsLowerAlnum(w) == \A i \in DOMAIN w : w[i] \in Range(LowerChars) \cup Digits

StopOrShortQueries ==
    SentencesOver({WordThe, WordIs, WordA1}) \cup {QueryHow}

C16_TermsLowercaseAlnumNoStopword ==
    call.op = "extract_keywords" =>
        /\ \A i \in DOMAIN call.result :
             /\ IsLowerAlnum(call.result[i])
             /\ Len(call.result[i]) >= 3
             /\ call.result[i] \notin STOPWORDS
        /\ call.query \in StopOrShortQueries => call.result = <<>>

\* a query of stopwords and short tokens got no term, with room for six
C16_Witness ==
    /\ call.op = "extract_keywords"
    /\ call.query = Sentence(<<WordThe, WordIs, WordA1>>)
    /\ call.max_terms = DefaultMaxTerms
    /\ call.result = <<>>

(***************************************************************************)
(* C17.  run_whatif on two scenarios, where the retrieval of the first     *)
(* fails at the store and the retrieval of the second succeeds (here it    *)
(* needs no store access at all), returns a table with a row for the       *)
(* second scenario.                                                        *)
(***************************************************************************)
C17_RowForScenarioAfterFailure ==
    (/\ wi.pc = "done"
     /\ Len(wi.scenarios) = 2
     /\ wi.failedAt = 1
     /\ wi.scenarios[2] = QueryHow) =>
        /\ wi.status = "returned"
        /\ \E i \in DOMAIN wi.records :
             wi.records[i].Scenario_Query = wi.scenarios[2]

(***************************************************************************)
(* C18.  When no retrieval fails, run_whatif returns one row per scenario, *)
(* repeated scenarios included, in input order; the keyword count of a row *)
(* is the number of terms extracted from its scenario, its returned-chunk  *)
(* count is the number of rows retrieved for it, and its average score is  *)
(* 0 when no row was retrieved.                                            *)
(***************************************************************************)
RowsToRetrieve(s, table) ==
    LET terms == extract_keywords(s, DefaultMaxTerms)
    IN Smaller(WhatIfTopK,
               CountRows(table, {r \in DOMAIN table :
                                   TermsHeld(r.CHUNK_TEXT, terms) >= 1}))

C18_OneRowPerScenarioInOrder ==
    wi.status = "returned" =>
        /\ Len(wi.records) = Len(wi.scenarios)
        /\ \A i \in DOMAIN wi.records :
             /\ wi.records[i].Scenario_Query = wi.scenarios[i]
             /\ wi.records[i].Keyword_Count =
                   Len(extract_keywords(wi.scenarios[i], DefaultMaxTerms))
             /\ wi.records[i].Returned_Chunks = Len(wi.got[i].df)
             /\ wi.records[i].Returned_Chunks =
                   RowsToRetrieve(wi.scenarios[i], DOC_CHUNKS_FEATURED)
             /\ wi.records[i].Returned_Chunks = 0 =>
                   wi.records[i].Average_Score = 0
             /\ wi.records[i].Returned_Chunks > 0 =>
                   wi.records[i].Average_Score >= 1000

\* three scenarios, one of them twice, over a corpus where one scenario
\* retrieves rows and the other none
C18_Witness ==
    /\ wi.status = "returned"
    /\ wi.scenarios = <<QueryPermit, QueryHow, QueryPermit>>
    /\ DOMAIN DOC_CHUNKS_FEATURED = SampleRows
    /\ wi.records[1].Returned_Chunks = 3
    /\ wi.records[2].Returned_Chunks = 0

(***************************************************************************)
(* C19: every record log_eval appended with ROWS_RETURNED = 0 has average, *)
(* maximum and minimum score 0.0, none of them NaN; every record with      *)
(* ROWS_RETURNED > 0 has MIN_SCORE <= AVG_SCORE <= MAX_SCORE; and a call   *)
(* given an empty result, a missing result or a result without a SCORE     *)
(* column that appends a record appends one with ROWS_RETURNED = 0.        *)
(***************************************************************************)
IsNaN(x) == x[2] = 0
Leq(x, y) == ~IsNaN(x) /\ ~IsNaN(y) /\ x[1] * y[2] <= y[1] * x[2]
ZeroRowFrames == {NoResult, NoFrame, UnscoredFrame}

C19_ZeroRowsZeroScoresElseOrdered ==
    /\ \A rec \in DOMAIN EVAL_METRICS :
          /\ ~IsNaN(rec.AVG_SCORE) /\ ~IsNaN(rec.MAX_SCORE) /\ ~IsNaN(rec.MIN_SCORE)
          /\ rec.ROWS_RETURNED = 0 =>
                /\ rec.AVG_SCORE = Zero
                /\ rec.MAX_SCORE = Zero
                /\ rec.MIN_SCORE = Zero
          /\ rec.ROWS_RETURNED > 0 =>
                /\ Leq(rec.MIN_SCORE, rec.AVG_SCORE)
                /\ Leq(rec.AVG_SCORE, rec.MAX_SCORE)
    /\ (call.op = "log_eval" /\ call.status = "returned") =>
          /\ call.record \in DOMAIN EVAL_METRICS
          /\ call.df \in ZeroRowFrames <=> call.record.ROWS_RETURNED = 0

\* a record of three rows with distinct minimum, average and maximum is in
\* the log, and the last call appended a record for a missing result
C19_Witness ==
    /\ call.op = "log_eval"
    /\ call.status = "returned"
    /\ call.df = NoResult
    /\ call.record.ROWS_RETURNED = 0
    /\ \E rec \in DOMAIN EVAL_METRICS :
          /\ rec.ROWS_RETURNED = 3
          /\ rec.MIN_SCORE = <<1, 1>>
          /\ rec.AVG_SCORE = <<4, 3>>
          /\ rec.MAX_SCORE = <<2, 1>>

(***************************************************************************)
(* C20: every recent-history read (evaluation history, feature history,    *)
(* ingestion log) sends the store a row limit within 1..1000, whatever     *)
(* limit the caller passes.                                                *)
(***************************************************************************)
C20_HistoryLimitWithin1To1000 ==
    call.op = "history" => (call.sent >= 1 /\ call.sent <= 1000)

(***************************************************************************)
(* C21: whatever the interleaving of the sessions' searches, two of them   *)
(* in the same clock second included, the feature records have pairwise    *)
(* distinct FEATURE_ID, the evaluation records have pairwise distinct      *)
(* EVAL_ID, and every append adds one record to its log.                   *)
(***************************************************************************)
DistinctBy(table, id) ==
    \A r1 \in DOMAIN table :
        /\ table[r1] = 1
        /\ \A r2 \in DOMAIN table : r1[id] = r2[id] => r1 = r2

C21_DistinctIdsEveryAppendPresent ==
    [][/\ DistinctBy(FEATURE_STORE', "FEATURE_ID")
       /\ DistinctBy(EVAL_METRICS', "EVAL_ID")
       /\ \A s \in Sessions :
            /\ (search[s].pc = "features" /\ search'[s].pc = "eval") =>
                   AllRows(FEATURE_STORE') = AllRows(FEATURE_STORE) + 1
            /\ (search[s].pc = "eval" /\ search'[s].status = "shown") =>
                   AllRows(EVAL_METRICS') = AllRows(EVAL_METRICS) + 1]_vars

(***************************************************************************)
(* C22: after any sequence of ingest_csv calls, failed moves and repeated  *)
(* attempts within one clock second included, the records of INGEST_LOG    *)
(* have pairwise distinct INGEST_ID.                                       *)
(***************************************************************************)
C22_DistinctIngestIds == DistinctBy(INGEST_LOG, "INGEST_ID")

(***************************************************************************)
(* C23: the logs are append-only: every step of every operation leaves     *)
(* each of FEATURE_STORE, EVAL_METRICS and INGEST_LOG as it is or adds one *)
(* record to it; no existing record is changed or removed.                 *)
(***************************************************************************)
Kept(table, after) ==
    \A r \in DOMAIN table : r \in DOMAIN after /\ after[r] >= table[r]

AppendOnly(table, after) ==
    /\ Kept(table, after)
    /\ AllRows(after) \in {AllRows(table), AllRows(table) + 1}

C23_LogsAppendOnly ==
    [][/\ AppendOnly(FEATURE_STORE, FEATURE_STORE')
       /\ AppendOnly(EVAL_METRICS, EVAL_METRICS')
       /\ AppendOnly(INGEST_LOG, INGEST_LOG')]_vars

\* each log has grown, INGEST_LOG twice, and a history has been read
C23_Witness ==
    /\ AllRows(INGEST_LOG) >= 2
    /\ AllRows(FEATURE_STORE) >= 1
    /\ AllRows(EVAL_METRICS) >= 1
    /\ call.op = "history"
    /\ call.rows >= 1

RowsKept(c) == \A r \in Range(FrameOf(c)) : Copies(DOC_CHUNKS_FEATURED, r) >= 1

C25_LogFailureKeepsRowsAndIsSurfaced ==
    \A p \in Procs :
        /\ (pc[p] = "logfail" /\ loc[p].e.kind = "LogError") =>
              (loc[p].inserted /\ RowsKept(loc[p].content))
        /\ lastCall[p].e.kind = "LogError" =>
              /\ lastCall[p].inserted
              /\ RowsKept(lastCall[p].content)
              /\ lastCall[p].status \in {"fail", "raised"}
              /\ lastCall[p].status = "fail" =>
                    \E r \in DOMAIN INGEST_LOG :
                        /\ r.STATUS = "fail"
                        /\ r.FILE_NAME = lastCall[p].file
                        /\ r.ERROR_MSG = lastCall[p].e

\* the attempt returned fail after its rows were committed, and the file
\* is still in the inbox
C25_Witness ==
    /\ lastCall["sched"].e.kind = "LogError"
    /\ lastCall["sched"].status = "fail"
    /\ lastCall["sched"].content = "B"
    /\ inbox[lastCall["sched"].file] = "B"
    /\ RowsFrom("B") # {}

(***************************************************************************)
(* C26: however the steps of two ingest_csv calls on two files of          *)
(* different names and contents interleave, the store working, the end     *)
(* state is that of one call after the other: each file has one success    *)
(* record and no other record, its rows are in DOC_CHUNKS_FEATURED once,   *)
(* and it is in the done directory and no longer in the inbox.             *)
(***************************************************************************)
BothEnded == \A p \in Procs : pc[p] = "idle"

C26_TwoFilesAsOneAfterTheOther ==
    BothEnded =>
        /\ AllRows(INGEST_LOG) = 2
        /\ DOMAIN DOC_CHUNKS_FEATURED = Range(FrameOf("A")) \cup Range(FrameOf("B"))
        /\ \A p \in Procs :
              /\ lastCall[p].status = "success"
              /\ ret[p].kind = "returned"
              /\ SuccessCount(lastCall[p].content) = 1
              /\ CommittedOnce(lastCall[p].content)
              /\ doneDir[lastCall[p].file] = lastCall[p].content
              /\ inbox[lastCall[p].file] = NoFile

\* both calls have ended, the app's on file f1.csv with content B
C26_Witness ==
    /\ BothEnded
    /\ lastCall["app"].file = "f1.csv"
    /\ lastCall["app"].content = "B"
    /\ lastCall["sched"].status = "success"

RecordOf(c, status) ==
    {r \in DOMAIN INGEST_LOG :
        r.FILE_NAME = c.file /\ r.FILE_HASH = c.content /\ r.STATUS = status}

C28_OneRecordMatchingOutcome ==
    LET c == lastCall["sched"]
    IN /\ c.status = "success" =>
             (RecordOf(c, "success") # {} /\ c.inserted)
       /\ c.status = "fail" =>
             /\ RecordOf(c, "fail") # {}
             /\ ~c.inserted
             /\ SuccessCount(c.content) = 0

(***************************************************************************)
(* C29: ingestion never changes the retrieval cache: a step that changes   *)
(* the store, the directories or the scheduler leaves every entry as it    *)
(* is; a cached_retrieval call made less than TTL seconds after its key's  *)
(* entry was created returns the entry's value, whatever was ingested      *)
(* since; and a call that finds the entry expired and returns, returns the *)
(* retrieval over the rows the store holds then, and stores it.            *)
(***************************************************************************)
EntryFresh(key) == cache[key].present /\ now - cache[key].created < TTL

C29_IngestionLeavesCacheUntilExpiry ==
    [][/\ (DOC_CHUNKS_FEATURED' # DOC_CHUNKS_FEATURED \/ INGEST_LOG' # INGEST_LOG
              \/ pc' # pc \/ inbox' # inbox \/ doneDir' # doneDir)
            => cache' = cache
       /\ (lastGet' # lastGet /\ lastGet'.status = "returned") =>
            LET key == lastGet'.key
            IN IF EntryFresh(key)
               THEN /\ lastGet'.value = cache[key].value
                    /\ cache' = cache
               ELSE /\ lastGet'.value \in
                          RunRetrieval(key[1], key[2], DOC_CHUNKS_FEATURED)
                    /\ cache'[key] = [present |-> TRUE, created |-> now,
                                      value |-> lastGet'.value]]_vars

\* a call within the TTL returned the empty result cached before the
\* ingestion, while the store holds rows that match the query
C29_Witness ==
    /\ lastGet.status = "returned"
    /\ LastGetHit
    /\ lastGet.key[1] = QueryPermit
    /\ lastGet.value.df = NoFrame
    /\ lastGet.at > lastGet.before.created
    /\ RowsFrom("A") # {}
    /\ \E v \in RunRetrieval(QueryPermit, lastGet.key[2], DOC_CHUNKS_FEATURED) :
          v.df # NoFrame

(***************************************************************************)
(* C30: a file in the inbox whose bytes were ingested with success before  *)
(* is never removed from the inbox by the scheduler: each call on it       *)
(* returns skipped and leaves it where it is, in every later run_once, so  *)
(* the files a run_once reported skipped are still candidates afterwards.  *)
(***************************************************************************)
C30_SkippedFileStaysInInbox ==
    /\ lastCall["sched"].prior =>
          /\ lastCall["sched"].status = "skipped"
          /\ inbox[lastCall["sched"].file] = lastCall["sched"].content
    /\ ret["sched"].kind = "returned" =>
          \A i \in DOMAIN ret["sched"].results :
              ret["sched"].results[i].status = "skipped" =>
                  /\ inbox[ret["sched"].files[i]] # NoFile
                  /\ ret["sched"].files[i] \in Candidates

\* the second run_once skipped a file whose bytes the first had ingested
\* and archived
C30_Witness ==
    /\ runs["sched"] = 2
    /\ ret["sched"].kind = "returned"
    /\ lastCall["sched"].prior
    /\ lastCall["sched"].status = "skipped"
    /\ inbox[lastCall["sched"].file] = "A"
    /\ \E f \in Names : doneDir[f] = "A"

(***************************************************************************)
(* C31.  For every text and every chunk_size > overlap >= 0, chunk_text    *)
(* terminates; each chunk has at most chunk_size characters; the chunks    *)
(* are pieces of the whitespace-normalised text, the first starting at its *)
(* first character and the last ending at its last; each chunk starts      *)
(* exactly overlap characters before the end of the one before and ends    *)
(* after it, so nothing is skipped and two consecutive chunks share        *)
(* exactly overlap characters; an empty or whitespace-only text yields no  *)
(* chunk.  With overlap >= chunk_size and a text longer than chunk_size    *)
(* the loop never leaves start = 0 and never returns.                      *)
(***************************************************************************)
ChunkParamsValid ==
    /\ call.op = "chunk_text"
    /\ call.chunk_size > call.overlap
    /\ call.overlap >= 0

\* no NUL and no whitespace but one space where the raw text has whitespace
\* or NUL between two other characters: the i-th character of the raw
\* text, if it is neither, stands after the others before it and one space
\* for each run of whitespace among them
IsNormalizedOf(t, raw) ==
    LET r == OrEmpty(raw)
        letter(c) == ~IsSpace(c) /\ c # NUL
        letters == {i \in DOMAIN r : letter(r[i])}
        pos(i) == Cardinality({j \in letters : j <= i})
                    + Cardinality({j \in letters : j < i /\ ~letter(r[j + 1])})
    IN /\ \A i \in DOMAIN t : t[i] \in {"a", "b", " "}
       /\ \A i \in letters : pos(i) <= Len(t) /\ t[pos(i)] = r[i]
       /\ Len(SelectSeq(t, LAMBDA c : c # " ")) = Cardinality(letters)
       /\ \E last \in letters \cup {0} :
             /\ \A i \in letters : i <= last
             /\ Len(t) = IF last = 0 THEN 0 ELSE pos(last)

ChunksWellFormed ==
    /\ IsNormalizedOf(call.text, call.raw)
    /\ call.n = Len(call.text)
    /\ Len(call.chunks) <= call.n
    /\ Len(call.spans) = Len(call.chunks)
    /\ \A k \in DOMAIN call.chunks :
          /\ Len(call.chunks[k]) <= call.chunk_size
          /\ call.chunks[k] # <<>>
          /\ call.spans[k][2] <= call.n
          /\ call.chunks[k]
                = SubSeq(call.text, call.spans[k][1] + 1, call.spans[k][2])
    /\ call.chunks # <<>> => call.spans[1][1] = 0
    /\ \A k \in 1..(Len(call.chunks) - 1) :
          /\ call.spans[k + 1][1] = call.spans[k][2] - call.overlap
          /\ call.spans[k + 1][1] > call.spans[k][1]
          /\ call.spans[k + 1][2] > call.spans[k][2]
    /\ call.pc = "done" =>
          IF call.n = 0 THEN call.chunks = <<>>
          ELSE /\ call.chunks # <<>>
               /\ call.spans[Len(call.spans)][2] = call.n

WhitespaceOnly ==
    /\ call.op = "chunk_text"
    /\ \A i \in DOMAIN OrEmpty(call.raw) : IsSpace(OrEmpty(call.raw)[i])

LoopStuck ==
    /\ call.op = "chunk_text"
    /\ call.overlap >= call.chunk_size
    /\ call.n > call.chunk_size
    /\ call.n > 0

ChunkTextReturned == call.op = "chunk_text" /\ call.pc = "done"

C31_ChunkTextTerminatesAndCovers ==
    /\ [](ChunkParamsValid => ChunksWellFormed)
    /\ ChunkParamsValid ~> ChunkTextReturned
    /\ [](WhitespaceOnly => call.pc = "done" /\ call.chunks = <<>>)
    /\ [](LoopStuck => /\ call.pc = "loop"
                       /\ call.start = 0
                       /\ \A k \in DOMAIN call.spans : call.spans[k][1] = 0)

\* a text that normalisation changes, cut into three chunks that overlap
C31_Witness ==
    /\ ChunkParamsValid
    /\ call.pc = "done"
    /\ call.overlap >= 1
    /\ call.raw # call.text
    /\ Len(call.chunks) >= 3

====
